---- MODULE Spec2Model ----
(***************************************************************************)
(* Model of the rule evaluator and the command pipelines of picexif.js /   *)
(* mediac:                                                                 *)
(*   src/cmd/cmd_remove.js   remove (cmdRemove, preRemoveArgs), compress   *)
(*                           (cmdCompress, preCompress) and transcode      *)
(*   src/unnamed/part_000    the legacy CLI (prepareRemoveArgs, cmdRename, *)
(*                           renameFiles, prepareCompressArgs, ...)        *)
(***************************************************************************)
EXTENDS Integers, Sequences, FiniteSets, TLC

\* ---------------------------------------------------------------- bounds
\* Largest pixel dimension of a file and largest width/height threshold.
MaxDim == 2
\* Largest number of command-line options given a non-default value in one run.
MaxOpts == 3

\* ------------------------------------------------------ program constants
\* preRemoveArgs: "size < 5k, maybe corrupted" (5 * 1024).
BAD_SIZE == 5120
\* cmdRemove: const cSize = argv.size * 1024.
KILO == 1024

\* ------------------------------------------------------------ file names
\* A name is a sequence of characters; the extension is one token.
ToLowerChar(ch) ==
    IF ch = "A" THEN "a" ELSE IF ch = "B" THEN "b" ELSE IF ch = "X" THEN "x" ELSE ch

\* String.prototype.toLowerCase
ToLower(s) == [i \in 1..Len(s) |-> ToLowerChar(s[i])]

\* String.prototype.startsWith
StartsWith(s, p) == Len(p) <= Len(s) /\ SubSeq(s, 1, Len(p)) = p

\* String.prototype.endsWith
EndsWith(s, p) == Len(p) <= Len(s) /\ SubSeq(s, Len(s) - Len(p) + 1, Len(s)) = p

\* new RegExp(p, "ui").test(s) for a pattern of literal characters: p occurs
\* in s, letter case ignored.
RegExpTest(p, s) ==
    \E i \in 1..(Len(s) + 1) :
        /\ i + Len(p) - 1 <= Len(s)
        /\ ToLower(SubSeq(s, i, i + Len(p) - 1)) = ToLower(p)

RECURSIVE TrimLeft(_)
TrimLeft(s) == IF s # <<>> /\ Head(s) = " " THEN TrimLeft(Tail(s)) ELSE s

RECURSIVE TrimRight(_)
TrimRight(s) ==
    IF s # <<>> /\ s[Len(s)] = " " THEN TrimRight(SubSeq(s, 1, Len(s) - 1)) ELSE s

\* String.prototype.trim
Trim(s) == TrimRight(TrimLeft(s))

\* path.basename(fileSrc): base name followed by the extension.
FileName(f) == IF f.ext = "" THEN f.base ELSE f.base \o <<f.ext>>

\* helper.isImageFile / isAudioFile / isVideoFile / isRawFile / isArchiveFile,
\* as called by preRemoveArgs: a classification by extension.
IsImageExt(f) == f.ext = ".jpg"
IsAudioExt(f) == f.ext = ".mp3"
IsVideoExt(f) == f.ext = ".mp4"
IsRawExt(f) == f.ext = ".arw"
IsArchiveExt(f) == f.ext = ".zip"

\* ------------------------------------------------------------- decisions
\* buildRemoveArgs: the decision returned for one entry.  Besides the fields of
\* the source object (index, desc, shouldRemove, src, size) the record keeps the
\* locals of the evaluation (test*), the sub-conditions that were evaluated and
\* the external collaborators that were called.
buildRemoveArgs(index, desc, shouldRemove, src, size, tests, evaluated, calls) ==
    [status |-> "ok", index |-> index, desc |-> desc, shouldRemove |-> shouldRemove,
     src |-> src, size |-> size, tests |-> tests, evaluated |-> evaluated,
     calls |-> calls]

NoTests ==
    [corrupted |-> FALSE, badchars |-> FALSE, pattern |-> FALSE, size |-> FALSE,
     measure |-> FALSE]

\* No decision yet.
NoDecision == [status |-> "none"]

\* The evaluation ended by an exception (the promise rejects): no decision.
Thrown(f, calls) ==
    [status |-> "threw", index |-> f.index, desc |-> <<>>, shouldRemove |-> FALSE,
     src |-> f.path, size |-> 0, tests |-> NoTests, evaluated |-> {}, calls |-> calls]

\* The legacy evaluation caught an error and returned undefined.
Undefined(f, calls) ==
    [status |-> "undefined", index |-> f.index, desc |-> <<>>, shouldRemove |-> FALSE,
     src |-> f.path, size |-> 0, tests |-> NoTests, evaluated |-> {}, calls |-> calls]

\* The name-list rule of both implementations: cNames.has(base.trim()),
\* shouldRemove = cReverse ? !nameInList : nameInList.
NameInList(f, c) == Trim(f.base) \in c.names.items

\* Variant: the reverse flag applied the wrong way round.
ListDecisionSwapped(f, c) == IF c.reverse THEN NameInList(f, c) ELSE ~NameInList(f, c)

ListDecision(f, c) == IF c.reverse THEN ~NameInList(f, c) ELSE NameInList(f, c)

\* Variant: a Set of names is a list, empty or not.
HasListUnchecked(c) == c.names.type = "Set"

\* hasList = cNames && cNames.size > 0: an Array has no size, so the default
\* [] of cmdRemove (and the Array stored after the evaluations) is no list.
HasList(c) == c.names.type = "Set" /\ c.names.items # {}

\* Variant: letter case is not ignored.
PatternMatchedCaseSensitive(fileName, pattern) ==
    \/ StartsWith(fileName, pattern)
    \/ EndsWith(fileName, pattern)
    \/ \E i \in 1..Len(fileName) :
          /\ i + Len(pattern) - 1 <= Len(fileName)
          /\ SubSeq(fileName, i, i + Len(pattern) - 1) = pattern

\* pMatched = fName.startsWith(cPattern) || fName.endsWith(cPattern) || rp.test(fName)
\* with fName and cPattern in lower case.
PatternMatched(fileName, pattern) ==
    LET fName == ToLower(fileName)
        cPattern == ToLower(pattern)
    IN  \/ StartsWith(fName, cPattern)
        \/ EndsWith(fName, cPattern)
        \/ RegExpTest(cPattern, fName)

\* Variant: one dimension within its threshold is enough.
MeasureMatchedEither(cWidth, cHeight, fWidth, fHeight) ==
    \/ cWidth > 0 /\ fWidth <= cWidth
    \/ cHeight > 0 /\ fHeight <= cHeight

\* The width/height test of both implementations.
MeasureMatched(cWidth, cHeight, fWidth, fHeight) ==
    IF cWidth > 0 /\ cHeight > 0
    THEN fWidth <= cWidth /\ fHeight <= cHeight
    ELSE IF cWidth > 0 /\ fWidth <= cWidth
    THEN TRUE
    ELSE cHeight > 0 /\ fHeight <= cHeight

\* Variant: a file of exactly 5 KiB is too small as well.
TooSmallInclusive(size) == size <= BAD_SIZE

\* f.size < 5 * 1024: presumed corrupted without looking into the file.
TooSmall(size) == size < BAD_SIZE

\* Variant: the test is applied to the dimensions of a failed read.
MeasureTestedUnguarded(dimOk, cWidth, cHeight, fWidth, fHeight) ==
    MeasureMatched(cWidth, cHeight, fWidth, fHeight)

\* The inner try block of preRemoveArgs: the test is applied when imageSizeOf
\* returned; when it threw, the error is logged and testMeasure stays false.
MeasureTested(dimOk, cWidth, cHeight, fWidth, fHeight) ==
    dimOk /\ MeasureMatched(cWidth, cHeight, fWidth, fHeight)

\* Variant: strict mode combined like loose mode.
checkConditionsAnyOf(hasName, hasSize, hasMeasure, testPattern, testSize, testMeasure) ==
    testPattern \/ testSize \/ testMeasure

\* checkConditions of preRemoveArgs: the strict-mode combinator.
checkConditions(hasName, hasSize, hasMeasure, testPattern, testSize, testMeasure) ==
    IF hasName /\ hasSize /\ hasMeasure
    THEN testPattern /\ testSize /\ testMeasure
    ELSE IF hasName /\ hasSize /\ ~hasMeasure
    THEN testPattern /\ testSize
    ELSE IF ~hasName /\ hasSize /\ hasMeasure
    THEN testSize /\ testMeasure
    ELSE IF hasName /\ ~hasSize /\ hasMeasure
    THEN testPattern /\ testMeasure
    ELSE testPattern \/ testSize \/ testMeasure

\* Variant: corrupted and badchars do not override the combination.
CombineNoOverride(testCorrupted, testBadChars, hasLoose, strict, testPattern, testSize, testMeasure) ==
    IF hasLoose THEN testPattern \/ testSize \/ testMeasure ELSE strict

\* The combination step of preRemoveArgs.
Combine(testCorrupted, testBadChars, hasLoose, strict, testPattern, testSize, testMeasure) ==
    IF testCorrupted \/ testBadChars
    THEN TRUE
    ELSE IF hasLoose
    THEN testPattern \/ testSize \/ testMeasure
    ELSE strict

\* Variant: every sub-result is required, configured or not.
strictAllRequired(hasName, hasSize, hasMeasure, isImage, testName, testSize, testMeasure) ==
    testName /\ testSize /\ (isImage /\ testMeasure)

\* The strict-mode expression of prepareRemoveArgs (legacy CLI): every
\* configured condition must be satisfied, an unconfigured one counts as met.
strictAll(hasName, hasSize, hasMeasure, isImage, testName, testSize, testMeasure) ==
    /\ ((hasName /\ testName) \/ ~hasName)
    /\ ((hasSize /\ testSize) \/ ~hasSize)
    /\ ((isImage /\ hasMeasure /\ testMeasure) \/ ~hasMeasure)

\* ------------------------------------------------------- preRemoveArgs
\* preRemoveArgs(f) of cmd_remove.js, with c = f.conditions.  The entry f
\* carries what the collaborators answer for it: probe (getMediaInfo), sniff
\* (fileTypeFromFile), dimOk/width/height (image-size), badName
\* (enc.hasBadCJKChar || enc.hasBadUnicode), dirOk (mf.getDirectorySizeR).
PreRemoveArgs(f, c) ==
    LET fileName == FileName(f)
        hasLoose == c.loose
        hasCorrupted == c.corrupted
        hasBadChars == c.badchars
        cWidth == c.width
        cHeight == c.height
        cSize == c.size
        cPattern == ToLower(c.pattern)
        cNotMatch == c.notMatch
        hasName == Len(cPattern) > 0
        hasSize == cSize > 0
        hasMeasure == cWidth > 0 \/ cHeight > 0
        isImageExt == IsImageExt(f)
        \* itemSize, itemCount: read before the try block
        dirThrows == f.isDir /\ ~f.dirOk
        itemSize == IF f.isDir THEN f.dirSize ELSE f.size
        \* corrupted check
        checkCorrupted == hasCorrupted /\ f.isFile
        isMedia == IsAudioExt(f) \/ IsVideoExt(f)
        isSniffed == ~isMedia /\ (isImageExt \/ IsRawExt(f) \/ IsArchiveExt(f))
        tooSmall == TooSmall(f.size)
        callProbe == checkCorrupted /\ isMedia /\ ~tooSmall
        callSniff == checkCorrupted /\ isSniffed /\ ~tooSmall
        corruptThrows == \/ callProbe /\ f.probe = "throws"
                         \/ callSniff /\ f.sniff = "throws"
        testCorrupted ==
            /\ checkCorrupted
            /\ \/ isMedia /\ (tooSmall \/ f.probe = "invalid")
               \/ isSniffed /\ (tooSmall \/ f.sniff = "none")
        descCorrupted ==
            IF ~testCorrupted THEN <<>>
            ELSE IF ~tooSmall THEN <<"Corrupted">>
            ELSE IF isMedia THEN <<"BadSizeM">> ELSE <<"BadSizeF">>
        \* bad characters check
        testBadChars == hasBadChars /\ f.badName
        descBadChars == IF testBadChars THEN <<"BadChars">> ELSE <<>>
        \* name pattern
        evalPattern == ~testCorrupted /\ hasName
        pMatched == PatternMatched(fileName, cPattern)
        testPattern == evalPattern /\ (IF cNotMatch THEN ~pMatched ELSE pMatched)
        descPattern == IF evalPattern THEN <<"P">> ELSE <<>>
        \* size
        evalSize == ~testCorrupted /\ hasSize /\ f.isFile
        testSize == evalSize /\ f.size > 0 /\ f.size <= cSize
        descSize == IF evalSize THEN <<"S">> ELSE <<>>
        \* dimension: image files only; a failed read is caught and logged
        evalMeasure == ~testCorrupted /\ hasMeasure /\ isImageExt /\ f.isFile
        testMeasure ==
            evalMeasure /\ MeasureTested(f.dimOk, cWidth, cHeight, f.width, f.height)
        descMeasure == IF evalMeasure /\ f.dimOk THEN <<"M">> ELSE <<>>
        strict == checkConditions(hasName, hasSize, hasMeasure,
                                  testPattern, testSize, testMeasure)
        shouldRemove == Combine(testCorrupted, testBadChars, hasLoose, strict,
                                testPattern, testSize, testMeasure)
        itemDesc == descCorrupted \o descBadChars \o descPattern \o descSize \o descMeasure
        calls == (IF callProbe THEN {"ffprobe"} ELSE {})
                 \cup (IF callSniff THEN {"file-type"} ELSE {})
                 \cup (IF evalMeasure /\ ~corruptThrows THEN {"image-size"} ELSE {})
        evaluated == (IF checkCorrupted THEN {"corrupted"} ELSE {})
                     \cup (IF hasBadChars THEN {"badchars"} ELSE {})
                     \cup (IF evalPattern THEN {"pattern"} ELSE {})
                     \cup (IF evalSize THEN {"size"} ELSE {})
                     \cup (IF evalMeasure THEN {"measure"} ELSE {})
        tests == [corrupted |-> testCorrupted, badchars |-> testBadChars,
                  pattern |-> testPattern, size |-> testSize, measure |-> testMeasure]
    IN  IF HasList(c)
        THEN buildRemoveArgs(f.index, <<"IN">>, ListDecision(f, c), f.path, f.size,
                             NoTests, {"list"}, {})
        ELSE IF dirThrows
        THEN Thrown(f, {})
        ELSE IF corruptThrows
        THEN Thrown(f, calls)
        ELSE buildRemoveArgs(f.index, itemDesc, shouldRemove, f.path, itemSize,
                             tests, evaluated, calls)

\* ---------------------------------------------------- prepareRemoveArgs
\* prepareRemoveArgs(f, options) of the legacy CLI.  statOk: fs.stat succeeds;
\* dimOk/width/height: what sharp's metadata() answers.
PrepareRemoveArgs(f, c) ==
    LET fileName == FileName(f)
        cLoose == c.loose
        cWidth == c.width
        cHeight == c.height
        cSize == c.size
        cPattern == ToLower(c.pattern)
        hasName == Len(cPattern) > 0
        hasSize == cSize > 0
        hasMeasure == cWidth > 0 \/ cHeight > 0
        testName == hasName /\ PatternMatched(fileName, cPattern)
        descName == IF hasName THEN <<"PT">> ELSE <<>>
        statThrows == hasSize /\ ~f.statOk
        testSize == hasSize /\ f.size > 0 /\ f.size <= cSize
        descSize == IF hasSize THEN <<"k">> ELSE <<>>
        isImage == IsImageExt(f)
        evalMeasure == hasMeasure /\ isImage
        dimThrows == evalMeasure /\ ~f.dimOk
        testMeasure == evalMeasure /\ MeasureMatched(cWidth, cHeight, f.width, f.height)
        descMeasure == IF evalMeasure THEN <<"x">> ELSE <<>>
        shouldRemove ==
            IF cLoose
            THEN testName \/ testSize \/ testMeasure
            ELSE strictAll(hasName, hasSize, hasMeasure, isImage,
                           testName, testSize, testMeasure)
        calls == IF evalMeasure /\ ~statThrows THEN {"sharp"} ELSE {}
        evaluated == (IF hasName THEN {"pattern"} ELSE {})
                     \cup (IF hasSize THEN {"size"} ELSE {})
                     \cup (IF evalMeasure THEN {"measure"} ELSE {})
        tests == [corrupted |-> FALSE, badchars |-> FALSE, pattern |-> testName,
                  size |-> testSize, measure |-> testMeasure]
    IN  IF HasList(c)
        THEN buildRemoveArgs(f.index, <<"IN">>, ListDecision(f, c), f.path, 0,
                             NoTests, {"list"}, {})
        ELSE IF statThrows \/ dimThrows
        THEN Undefined(f, calls)
        ELSE buildRemoveArgs(f.index, descName \o descSize \o descMeasure, shouldRemove,
                             f.path, 0, tests, evaluated, calls)

\* ----------------------------------------------------------------- state
VARIABLES
    entry,        \* the FileEntry handed to the evaluators (evaluator runs)
    conditions,   \* the ConditionSet of the run
    decNew,       \* what preRemoveArgs returned for entry, or "none"
    decLegacy,    \* what prepareRemoveArgs returned for entry, or "none"
    cmd,          \* the command of the run
    argv,         \* its parsed command line
    pc,           \* the position of the command handler
    outcome,      \* how the handler ended, "running" until then
    disk,         \* the paths present under the root
    disk0,        \* the paths present when the command started
    trash,        \* the paths moved away by helper.safeRemove
    locals,       \* the constants the handler derives from argv
    files,        \* the walked entries, sorted and indexed
    pending,      \* indexes of files whose pMap mapper has not finished
    results,      \* what the mappers returned, by position
    tasks,        \* the filtered task list
    answers,      \* the operator's answers to the prompts so far
    ops,          \* the filesystem mutations attempted so far
    removedCount, \* cmdRemove: let removedCount
    cursor,       \* position of the sequential loop over tasks
    presets,      \* the preset objects, PRESET_MAP and the presets handed out
    pools         \* the CPU count and the worker pools a command created

evalVars == <<entry, decNew, decLegacy>>

cmdVars ==
    <<cmd, argv, pc, outcome, disk, disk0, trash, locals, files, pending, results,
      tasks, answers, ops, removedCount, cursor>>

vars == <<evalVars, conditions, cmdVars, presets, pools>>

\* ------------------------------------------------------- worker pools
\* The largest CPU count of the runs.
MaxCpus == 16

\* A JavaScript Number that is a ratio of two integers: a / b is not rounded.
Quot(a, b) == <<a, b>>
IsWhole(q) == q[1] % q[2] = 0
AtLeastOne(q) == q[1] >= q[2]
Below(p, q) == p[1] * q[2] < q[1] * p[2]

\* The commands that create worker pools from the CPU count.
PoolCommands == {"remove", "compress", "legacyRemove", "legacyCompress"}

\* The concurrency of the preparation stage: pMap(files, preRemoveArgs),
\* pMap(files, preCompress), throat(2 * cpuCount, ...), throat(cpuCount, ...).
PrepareLimit(c, n) ==
    CASE c = "remove" -> Quot(n * 2, 1)
      [] c = "compress" -> Quot(n * 4, 1)
      [] c = "legacyRemove" -> Quot(2 * n, 1)
      [] c = "legacyCompress" -> Quot(n, 1)

\* The concurrency of the execution stage: pMap(tasks, compressImage) and
\* pMap(tasks, makeThumbOne).  The remove commands execute in a plain loop.
ExecuteLimit(c, n) ==
    CASE c = "compress" -> Quot(n, 2)
      [] c = "legacyCompress" -> Quot(n + 2, 2)

\* No pool was created.
NoPools == [cpus |-> 0, command |-> "none", created |-> <<>>]

\* ---------------------------------------------------- evaluator inputs
Name1 == <<"A", " ">>
Name2 == <<"b">>
BaseNames == {Name1, Name2}

\* File sizes around the two thresholds in use (BAD_SIZE and size = 5k).
FileSizes == {0, BAD_SIZE - 1, BAD_SIZE, BAD_SIZE + KILO}

Entry(base, ext, isDir, size, w, h, dimOk, probe, sniff, badName, dirOk, statOk) ==
    [index |-> 0, path |-> <<base, ext>>, base |-> base, ext |-> ext,
     isDir |-> isDir, isFile |-> ~isDir, size |-> size, dirSize |-> size,
     width |-> w, height |-> h, dimOk |-> dimOk, probe |-> probe, sniff |-> sniff,
     badName |-> badName, dirOk |-> dirOk, statOk |-> statOk]

\* A file size with what the prober or sniffer answers for the file: the
\* answer matters only for a file of at least BAD_SIZE bytes.
SizeAnswers(bad) ==
    { <<sz, "ok">> : sz \in FileSizes }
    \cup { <<sz, a>> : sz \in {x \in FileSizes : x >= BAD_SIZE}, a \in {bad, "throws"} }

\* Image files: every size, every pair of dimensions or an unreadable header.
ImageEntries ==
    { Entry(b, ".jpg", FALSE, sa[1], d[1], d[2], d[3], "ok", sa[2], bn, TRUE, TRUE) :
        b \in BaseNames, sa \in SizeAnswers("none"),
        d \in ((0..MaxDim) \X (0..MaxDim) \X {TRUE}) \cup {<<0, 0, FALSE>>},
        bn \in BOOLEAN }

\* Audio and video files, probed by getMediaInfo.
MediaEntries ==
    { Entry(b, x, FALSE, sa[1], 0, 0, FALSE, sa[2], "ok", bn, TRUE, TRUE) :
        b \in BaseNames, x \in {".mp3", ".mp4"}, sa \in SizeAnswers("invalid"),
        bn \in BOOLEAN }

\* Raw images and archives, sniffed by file-type.
SniffedEntries ==
    { Entry(b, x, FALSE, sa[1], 0, 0, FALSE, "ok", sa[2], bn, TRUE, TRUE) :
        b \in BaseNames, x \in {".arw", ".zip"}, sa \in SizeAnswers("none"),
        bn \in BOOLEAN }

\* Files of any other kind; fs.stat of the legacy CLI may fail on them.
OtherEntries ==
    { Entry(b, ".txt", FALSE, sz, 0, 0, FALSE, "ok", "ok", bn, TRUE, st) :
        b \in BaseNames, sz \in FileSizes, bn \in BOOLEAN, st \in BOOLEAN }

\* Directories (walk type d), their recursive size readable or not.
DirEntries ==
    { Entry(b, x, TRUE, sz, 0, 0, FALSE, "ok", "ok", bn, ok, TRUE) :
        b \in BaseNames, x \in {"", ".jpg"}, sz \in {0, BAD_SIZE},
        bn \in BOOLEAN, ok \in BOOLEAN }

EvalEntries ==
    ImageEntries \cup MediaEntries \cup SniffedEntries \cup OtherEntries \cup DirEntries

\* The name list of a ConditionSet: the Array [] cmdRemove starts from, or the
\* Set read from the list file.
NoNames == [type |-> "Array", items |-> {}]

ListNames == [type |-> "Set", items |-> {<<"A">>}]

\* notMatch has a non-default value only next to a pattern, reverse only next
\* to a name list.
CondSets ==
    { [loose |-> l, corrupted |-> co, badchars |-> bc, width |-> w, height |-> h,
       size |-> sz, pattern |-> pn[1], notMatch |-> pn[2], names |-> nr[1],
       reverse |-> nr[2]] :
        l \in BOOLEAN, co \in BOOLEAN, bc \in BOOLEAN,
        w \in 0..(MaxDim - 1), h \in 0..(MaxDim - 1), sz \in {0, 5 * KILO},
        pn \in {<<(<<>>), FALSE>>, <<(<<"a">>), FALSE>>, <<(<<"a">>), TRUE>>},
        nr \in {<<NoNames, FALSE>>, <<ListNames, FALSE>>, <<ListNames, TRUE>>} }

\* The Set of an empty or unreadable list file.
EmptyList == [type |-> "Set", items |-> {}]

\* The ConditionSets without any effective condition: no name in the list,
\* whatever loose, notMatch and reverse are.
EmptyCondSets ==
    { [loose |-> l, corrupted |-> FALSE, badchars |-> FALSE, width |-> 0, height |-> 0,
       size |-> 0, pattern |-> <<>>, notMatch |-> nm, names |-> n, reverse |-> r] :
        l \in BOOLEAN, nm \in BOOLEAN, n \in {NoNames, EmptyList}, r \in BOOLEAN }

\* --------------------------------------------------- evaluator runs
\* No command is running.
NoRecord == [status |-> "none"]

CmdIdle ==
    /\ cmd = "none"
    /\ argv = NoRecord
    /\ pc = "idle"
    /\ outcome = "none"
    /\ disk = {}
    /\ disk0 = {}
    /\ trash = {}
    /\ locals = NoRecord
    /\ files = <<>>
    /\ pending = {}
    /\ results = <<>>
    /\ tasks = <<>>
    /\ answers = <<>>
    /\ ops = <<>>
    /\ removedCount = 0
    /\ cursor = 0

\* --------------------------------------------------------------- presets
\* Largest number of preparePreset calls of a run of the preset table.
MaxCalls == 2

\* new Preset(name, {...}): the fields of the model, those not given undefined
\* (videoQuality and speed 0).
HEVC_BASE ==
    [name |-> "hevc-base", format |-> ".mp4", prefix |-> "[SHANA] ", suffix |-> "",
     output |-> "undefined", videoBitrate |-> "undefined", videoQuality |-> 0,
     audioBitrate |-> "undefined", dimension |-> "undefined", speed |-> 0]

AAC_BASE ==
    [name |-> "aac_base", format |-> ".m4a", prefix |-> "", suffix |-> "",
     output |-> "undefined", videoBitrate |-> "undefined", videoQuality |-> 0,
     audioBitrate |-> "undefined", dimension |-> "undefined", speed |-> 0]

\* The objects when the module is loaded: heap holds the preset objects (an
\* object is its position), map is PRESET_MAP, initial the value of every
\* entry of PRESET_MAP when initializePresets returned, made the objects
\* preparePreset returned.
ModuleLoaded ==
    [heap |-> <<HEVC_BASE, AAC_BASE>>, map |-> <<>>, initial |-> <<>>, made |-> <<>>]

\* updateObject(target, source): the own keys of target only.
updateObject(target, source) ==
    [k \in DOMAIN target |-> IF k \in DOMAIN source THEN source[k] ELSE target[k]]

\* Preset.fromPreset(preset): a new object with the fields of preset.
fromPreset(heap, preset) == <<Append(heap, heap[preset]), Len(heap) + 1>>

\* { ...AAC_BASE, name, audioBitrate }: a new object.
Spread(heap, base, source) ==
    <<Append(heap, updateObject(heap[base], source)), Len(heap) + 1>>

\* Variant: no copy, the object itself.
structuredCloneAlias(heap, object) == <<heap, object>>

\* structuredClone(preset): a new object with the fields of preset.
structuredClone(heap, object) == <<Append(heap, heap[object]), Len(heap) + 1>>

\* initializePresets: hevc_2k and hevc_low derived from HEVC_BASE, aac_medium
\* from AAC_BASE, stored in PRESET_MAP under their names.
InitializedPresets(p) ==
    LET a == fromPreset(p.heap, 1)
        h1 == [a[1] EXCEPT ![a[2]] =
                  updateObject(@, [name |-> "hevc_2k", videoQuality |-> 23,
                                   videoBitrate |-> "4096K", audioBitrate |-> "192k",
                                   dimension |-> "1920"])]
        b == fromPreset(h1, 1)
        h2 == [b[1] EXCEPT ![b[2]] =
                  updateObject(@, [name |-> "hevc_low", videoQuality |-> 26,
                                   videoBitrate |-> "2048K", audioBitrate |-> "128k",
                                   dimension |-> "1920"])]
        c == Spread(h2, 2, [name |-> "aac_medium", audioBitrate |-> "192k"])
        map == [n \in {"hevc_2k", "hevc_low", "aac_medium"} |->
                   IF n = "hevc_2k" THEN a[2] ELSE IF n = "hevc_low" THEN b[2] ELSE c[2]]
    IN  [p EXCEPT !.heap = c[1], !.map = map,
                  !.initial = [n \in DOMAIN map |-> c[1][map[n]]]]

\* The arguments preparePreset reads, of the model: "" and 0 are not given.
PresetArgvs ==
    [preset : {"", "hevc_2k", "hevc_low", "aac_medium"}, audioMode : BOOLEAN,
     prefix : {"", "X"}, dimension : {"", "1280"}, speed : {0, 2}]

\* The assignments of preparePreset to the preset it returns.
Specialised(preset, a) ==
    [preset EXCEPT !.prefix = IF a.prefix # "" THEN a.prefix ELSE @,
                   !.dimension = IF a.dimension # "" THEN a.dimension ELSE @,
                   !.speed = IF a.speed > 0 THEN a.speed ELSE @]

\* The module is loaded, initializePresets has not run.
InitPreset ==
    /\ presets = ModuleLoaded
    /\ pools = NoPools
    /\ entry = NoRecord
    /\ conditions = NoRecord
    /\ decNew = NoDecision
    /\ decLegacy = NoDecision
    /\ CmdIdle

initializePresets ==
    /\ presets.map = <<>>
    /\ presets' = InitializedPresets(presets)
    /\ UNCHANGED <<evalVars, conditions, cmdVars, pools>>

\* preparePreset(argv): the preset of the name (aac_medium or hevc_2k when
\* none is given) is cloned and the clone gets the values of argv.
PreparePreset ==
    /\ presets.map # <<>>
    /\ Len(presets.made) < MaxCalls
    /\ \E a \in PresetArgvs :
         LET defaultName == IF a.audioMode THEN "aac_medium" ELSE "hevc_2k"
             found == presets.map[IF a.preset # "" THEN a.preset ELSE defaultName]
             clone == structuredClone(presets.heap, found)
             preset == clone[2]
         IN  presets' = [presets EXCEPT
                            !.heap = [clone[1] EXCEPT ![preset] = Specialised(@, a)],
                            !.made = Append(@, preset)]
    /\ UNCHANGED <<evalVars, conditions, cmdVars, pools>>

NextPreset == initializePresets \/ PreparePreset

SpecPreset == InitPreset /\ [][NextPreset]_vars

\* A command on a machine of some CPU count, before its first pool.
InitPool ==
    /\ \E c \in PoolCommands, n \in 1..MaxCpus :
         pools = [cpus |-> n, command |-> c, created |-> <<>>]
    /\ presets = InitializedPresets(ModuleLoaded)
    /\ entry = NoRecord
    /\ conditions = NoRecord
    /\ decNew = NoDecision
    /\ decLegacy = NoDecision
    /\ CmdIdle

\* The pool of the preparation stage is created.
CreatePreparePool ==
    /\ pools.command \in PoolCommands /\ pools.created = <<>>
    /\ pools' = [pools EXCEPT !.created =
                    <<[stage |-> "prepare",
                       concurrency |-> PrepareLimit(pools.command, pools.cpus)]>>]
    /\ UNCHANGED <<evalVars, conditions, cmdVars, presets>>

\* The pool of the execution stage of a compress command is created.
CreateExecutePool ==
    /\ pools.command \in {"compress", "legacyCompress"} /\ Len(pools.created) = 1
    /\ pools' = [pools EXCEPT !.created =
                    Append(@, [stage |-> "execute",
                               concurrency |-> ExecuteLimit(pools.command, pools.cpus)])]
    /\ UNCHANGED <<evalVars, conditions, cmdVars, presets>>

NextPool == CreatePreparePool \/ CreateExecutePool

SpecPool == InitPool /\ [][NextPool]_vars

\* One entry and one ConditionSet, evaluated by both remove implementations.
InitEval ==
    /\ entry \in EvalEntries
    /\ conditions \in CondSets \cup EmptyCondSets
    /\ decNew = NoDecision
    /\ decLegacy = NoDecision
    /\ presets = InitializedPresets(ModuleLoaded)
    /\ pools = NoPools
    /\ CmdIdle

EvalNew ==
    /\ cmd = "none"
    /\ decNew = NoDecision
    /\ decNew' = PreRemoveArgs(entry, conditions)
    /\ UNCHANGED <<entry, conditions, decLegacy, presets, pools, cmdVars>>

EvalLegacy ==
    /\ cmd = "none"
    /\ decNew # NoDecision
    /\ decLegacy = NoDecision
    /\ decLegacy' = PrepareRemoveArgs(entry, conditions)
    /\ UNCHANGED <<entry, conditions, decNew, presets, pools, cmdVars>>

NextEval == EvalNew \/ EvalLegacy

SpecEval == InitEval /\ [][NextEval]_vars

\* ------------------------------------------------- evaluator properties
\* Which of the three combinable conditions the ConditionSet configures.
CfgName == conditions.pattern # <<>>
CfgSize == conditions.size > 0
CfgMeasure == conditions.width > 0 \/ conditions.height > 0
ListInForce == conditions.names.type = "Set" /\ conditions.names.items # {}

\* The entry's base name, surrounding blanks dropped, is in the name list.
InList == \E n \in conditions.names.items : n = Trim(entry.base)

\* preRemoveArgs returned a decision without the name list in force and
\* without the corrupted or badchars check firing.
PlainDecision ==
    /\ decNew.status = "ok"
    /\ ~ListInForce
    /\ ~decNew.tests.corrupted
    /\ ~decNew.tests.badchars

\* C1: with a non-empty name list, both implementations decide every entry by
\* list membership and the reverse flag alone, whatever the other fields of the
\* ConditionSet are.
C1_ListOverride ==
    ListInForce =>
        /\ decNew # NoDecision =>
              /\ decNew.status = "ok"
              /\ decNew.shouldRemove = (IF conditions.reverse THEN ~InList ELSE InList)
        /\ decLegacy # NoDecision =>
              /\ decLegacy.status = "ok"
              /\ decLegacy.shouldRemove = (IF conditions.reverse THEN ~InList ELSE InList)

\* A tiny image whose name is not listed, under a list and every other
\* condition configured: both implementations leave it alone.
C1_Witness ==
    /\ ListInForce /\ ~conditions.reverse /\ ~InList
    /\ conditions.corrupted /\ conditions.badchars /\ conditions.loose
    /\ CfgName /\ CfgSize /\ CfgMeasure
    /\ entry.ext = ".jpg" /\ entry.size = BAD_SIZE - 1 /\ entry.badName
    /\ decNew.status = "ok" /\ ~decNew.shouldRemove
    /\ decLegacy.status = "ok" /\ ~decLegacy.shouldRemove

\* C2: without a name list in force, an entry for which the corrupted check or
\* the bad-characters check fired is selected, in loose and in strict mode,
\* whatever the other sub-results and configured conditions are.
C2_AbsoluteOverride ==
    (/\ decNew # NoDecision
     /\ decNew.status = "ok"
     /\ ~ListInForce
     /\ (decNew.tests.corrupted \/ decNew.tests.badchars))
        => decNew.shouldRemove

\* Strict mode, pattern, size and dimension configured, the pattern does not
\* match, and the bad-characters check fired: selected.
C2_Witness ==
    /\ decNew.status = "ok" /\ ~ListInForce /\ ~conditions.loose
    /\ CfgName /\ CfgSize /\ CfgMeasure
    /\ decNew.tests.badchars /\ ~decNew.tests.corrupted
    /\ ~decNew.tests.pattern /\ ~decNew.tests.size
    /\ decNew.shouldRemove

\* The conjunction of the sub-results of the configured conditions.
ConfiguredAnd ==
    /\ CfgName => decNew.tests.pattern
    /\ CfgSize => decNew.tests.size
    /\ CfgMeasure => decNew.tests.measure

\* C3 as stated: in strict mode with neither override fired the decision is
\* the conjunction over the configured conditions, for every ConditionSet.
C3_Original ==
    (decNew # NoDecision /\ PlainDecision /\ ~conditions.loose)
        => decNew.shouldRemove = ConfiguredAnd

\* C3 (amended): the decision is that conjunction whenever at least one of
\* pattern, size, dimension is configured, and is "keep" when none is.
C3_StrictAnd ==
    (decNew # NoDecision /\ PlainDecision /\ ~conditions.loose)
        => decNew.shouldRemove
              = ((CfgName \/ CfgSize \/ CfgMeasure) /\ ConfiguredAnd)

\* Width and pattern configured, strict: the entry is within the width, its
\* name does not match, and it is not selected.
C3_Witness ==
    /\ decNew # NoDecision /\ PlainDecision /\ ~conditions.loose
    /\ CfgName /\ ~CfgSize /\ conditions.width > 0 /\ conditions.height = 0
    /\ decNew.tests.measure /\ ~decNew.tests.pattern
    /\ ~decNew.shouldRemove

\* The file name contains the pattern, letter case ignored.
NameHasPattern ==
    LET n == FileName(entry)
        p == conditions.pattern
    IN  \E i \in 1..Len(n) :
            /\ i + Len(p) - 1 <= Len(n)
            /\ \A k \in 1..Len(p) : ToLowerChar(n[i + k - 1]) = ToLowerChar(p[k])

OnlyPattern ==
    /\ CfgName /\ ~CfgSize /\ ~CfgMeasure
    /\ ~conditions.notMatch /\ ~conditions.corrupted /\ ~conditions.badchars
    /\ ~ListInForce

\* C5: in loose mode with neither override fired and no list in force the
\* decision is the OR of the three sub-results; with only a pattern configured
\* an entry is selected iff its name matches the pattern.
C5_LooseOr ==
    (decNew # NoDecision /\ conditions.loose) =>
        /\ PlainDecision =>
              decNew.shouldRemove
                 = (decNew.tests.pattern \/ decNew.tests.size \/ decNew.tests.measure)
        /\ (OnlyPattern /\ decNew.status = "ok") =>
              decNew.shouldRemove = NameHasPattern

\* Loose mode, only a pattern: the name "A .jpg" matches "a" and is selected.
C5_Witness ==
    /\ conditions.loose /\ OnlyPattern
    /\ decNew.status = "ok"
    /\ entry.base = Name1 /\ NameHasPattern
    /\ decNew.shouldRemove

\* Both dimensions within the thresholds that are set.
WithinThresholds ==
    /\ conditions.width > 0 => entry.width <= conditions.width
    /\ conditions.height > 0 => entry.height <= conditions.height

OnlyMeasure ==
    /\ CfgMeasure /\ ~CfgName /\ ~CfgSize
    /\ ~conditions.corrupted /\ ~conditions.badchars /\ ~ListInForce

\* C6: the dimension sub-condition is evaluated for image files only; where it
\* is evaluated and the dimensions were read it matches iff every dimension
\* with a threshold is within it (both implementations); so in strict mode
\* with only thresholds configured exactly the images within them are selected.
C6_Dimension ==
    /\ (decNew # NoDecision /\ decNew.status = "ok" /\ ~ListInForce) =>
          /\ ("measure" \in decNew.evaluated \/ decNew.tests.measure)
                => (entry.ext = ".jpg" /\ entry.isFile)
          /\ ("measure" \in decNew.evaluated /\ entry.dimOk)
                => decNew.tests.measure = WithinThresholds
          /\ (OnlyMeasure /\ ~conditions.loose /\ entry.ext = ".jpg"
              /\ entry.isFile /\ entry.dimOk)
                => decNew.shouldRemove = WithinThresholds
    /\ (decLegacy # NoDecision /\ decLegacy.status = "ok" /\ ~ListInForce) =>
          /\ ("measure" \in decLegacy.evaluated \/ decLegacy.tests.measure)
                => entry.ext = ".jpg"
          /\ "measure" \in decLegacy.evaluated
                => decLegacy.tests.measure = WithinThresholds

\* Both thresholds set, strict: an image within the width but over the height
\* is evaluated, does not match, and is kept by both implementations.
C6_Witness ==
    /\ OnlyMeasure /\ ~conditions.loose
    /\ conditions.width > 0 /\ conditions.height > 0
    /\ entry.ext = ".jpg" /\ entry.isFile /\ entry.dimOk
    /\ entry.width <= conditions.width /\ entry.height > conditions.height
    /\ decNew.status = "ok" /\ "measure" \in decNew.evaluated
    /\ ~decNew.tests.measure /\ ~decNew.shouldRemove
    /\ decLegacy.status = "ok" /\ ~decLegacy.tests.measure

\* imageSizeOf was called for the entry and threw.
DimReadFailed ==
    /\ decNew # NoDecision
    /\ "image-size" \in decNew.calls
    /\ ~entry.dimOk

\* C21: when reading the dimensions of an entry fails, preRemoveArgs returns
\* a decision, the entry is flagged neither corrupted nor within the
\* dimensions, every other configured sub-condition is evaluated and the
\* decision is the combination of the sub-results.
C21_DimFailure ==
    DimReadFailed =>
        /\ decNew.status = "ok"
        /\ ~decNew.tests.corrupted
        /\ ~decNew.tests.measure
        /\ CfgName => "pattern" \in decNew.evaluated
        /\ CfgSize => "size" \in decNew.evaluated
        /\ conditions.badchars => "badchars" \in decNew.evaluated
        /\ decNew.shouldRemove =
              Combine(FALSE, decNew.tests.badchars, conditions.loose,
                      checkConditions(CfgName, CfgSize, CfgMeasure, decNew.tests.pattern,
                                      decNew.tests.size, FALSE),
                      decNew.tests.pattern, decNew.tests.size, FALSE)

\* Loose mode, size and width configured: an image whose header cannot be
\* read is within the size and is selected for it.
C21_Witness ==
    /\ DimReadFailed
    /\ conditions.loose /\ CfgSize /\ CfgMeasure /\ conditions.corrupted
    /\ decNew.status = "ok"
    /\ decNew.tests.size /\ ~decNew.tests.measure /\ ~decNew.tests.corrupted
    /\ decNew.shouldRemove

\* The kinds of file the corruption check looks at.
CheckedKind == entry.ext \in {".mp3", ".mp4", ".jpg", ".arw", ".zip"}

\* The external prober or the file-type sniffer was called for the entry.
Probed == "ffprobe" \in decNew.calls \/ "file-type" \in decNew.calls

\* C22: with the corruption check on and no list in force, a file of a checked
\* kind under 5120 bytes is flagged corrupted without a call of the prober or
\* sniffer, a file of a checked kind of exactly 5120 bytes is handed to one of
\* them, a file of another kind is never flagged, and a directory is never
\* corruption-checked.
C22_SmallIsCorrupted ==
    (decNew # NoDecision /\ ~ListInForce /\ conditions.corrupted) =>
        /\ (entry.isFile /\ CheckedKind /\ entry.size < 5 * KILO) =>
              /\ decNew.status = "ok"
              /\ decNew.tests.corrupted /\ decNew.shouldRemove
              /\ ~Probed
        /\ (entry.isFile /\ CheckedKind /\ entry.size = 5 * KILO) => Probed
        /\ (entry.isFile /\ ~CheckedKind) =>
              /\ decNew.status = "ok"
              /\ ~decNew.tests.corrupted
              /\ ~Probed
        /\ entry.isDir =>
              /\ ~decNew.tests.corrupted
              /\ "corrupted" \notin decNew.evaluated
              /\ ~Probed

\* An archive of 5119 bytes is flagged without a call of the sniffer.
C22_Witness ==
    /\ ~ListInForce /\ conditions.corrupted
    /\ entry.ext = ".zip" /\ entry.size = 5 * KILO - 1
    /\ decNew.status = "ok" /\ decNew.tests.corrupted /\ decNew.calls = {}
    /\ decNew.desc = <<"BadSizeF">>

\* The rationale of the decision has one of the fragments.
HasFragment(fragments) ==
    \E i \in 1..Len(decNew.desc) : decNew.desc[i] \in fragments

\* C23: the rationale of a decision of preRemoveArgs has a fragment for every
\* sub-condition that was evaluated for the entry.
C23_FragmentPerCondition ==
    (decNew # NoDecision /\ decNew.status = "ok" /\ ~ListInForce) =>
        /\ "corrupted" \in decNew.evaluated
              => HasFragment({"Corrupted", "BadSizeM", "BadSizeF"})
        /\ "badchars" \in decNew.evaluated => HasFragment({"BadChars"})
        /\ "pattern" \in decNew.evaluated => HasFragment({"P"})
        /\ "size" \in decNew.evaluated => HasFragment({"S"})
        /\ "measure" \in decNew.evaluated => HasFragment({"M"})

\* Nothing the evaluation looks at is configured.
EffectiveEmpty ==
    /\ conditions.names.items = {}
    /\ ~conditions.corrupted /\ ~conditions.badchars
    /\ conditions.pattern = <<>> /\ conditions.size = 0
    /\ conditions.width = 0 /\ conditions.height = 0

\* C26: with no effective condition preRemoveArgs selects no entry, in loose
\* and in strict mode and whatever reverse is.
C26_FailSafe ==
    (EffectiveEmpty /\ decNew # NoDecision) => ~decNew.shouldRemove

\* Loose mode, reverse set, the Set of an empty list file: the entry is
\* evaluated and kept.
C26_Witness ==
    /\ EffectiveEmpty /\ conditions.loose /\ conditions.reverse
    /\ conditions.names = EmptyList
    /\ entry.isFile
    /\ decNew.status = "ok" /\ ~decNew.shouldRemove /\ decNew.evaluated = {}

\* Both strict-mode combinators applied to one set of flags and sub-results:
\* equal when a condition is configured, different when none is.
StrictAgree(hasName, hasSize, hasMeasure, isImage, testName, testSize, testMeasure) ==
    LET new == checkConditions(hasName, hasSize, hasMeasure, testName, testSize, testMeasure)
        legacy == strictAll(hasName, hasSize, hasMeasure, isImage,
                            testName, testSize, testMeasure)
    IN  IF hasName \/ hasSize \/ hasMeasure THEN new = legacy ELSE new # legacy

\* C27: on the flags and sub-results either implementation computes for an
\* entry (an unconfigured condition has a false sub-result), checkConditions
\* and the strict expression of the legacy prepareRemoveArgs return the same
\* outcome when name, size or dimension is configured, and different outcomes
\* when none of them is.
C27_StrictAgree ==
    /\ (decNew # NoDecision /\ decNew.status = "ok" /\ "list" \notin decNew.evaluated)
         => StrictAgree(CfgName, CfgSize, CfgMeasure, IsImageExt(entry),
                        decNew.tests.pattern, decNew.tests.size, decNew.tests.measure)
    /\ (decLegacy # NoDecision /\ decLegacy.status = "ok" /\ "list" \notin decLegacy.evaluated)
         => StrictAgree(CfgName, CfgSize, CfgMeasure, IsImageExt(entry),
                        decLegacy.tests.pattern, decLegacy.tests.size,
                        decLegacy.tests.measure)

\* Name and size configured, the name matched and the size not: both
\* combinators say no; and the strict legacy run of the same entry is there.
C27_Witness ==
    /\ CfgName /\ CfgSize /\ ~CfgMeasure /\ ~conditions.loose
    /\ decNew # NoDecision /\ decNew.status = "ok"
    /\ decNew.tests.pattern /\ ~decNew.tests.size
    /\ decLegacy # NoDecision /\ decLegacy.status = "ok"
    /\ decLegacy.tests.pattern /\ ~decLegacy.tests.size /\ ~decLegacy.shouldRemove

\* No condition configured and no list: the combinators differ, the legacy
\* strict run selects the entry.
C27_WitnessNone ==
    /\ ~CfgName /\ ~CfgSize /\ ~CfgMeasure /\ ~conditions.loose
    /\ decLegacy # NoDecision /\ decLegacy.status = "ok" /\ decLegacy.shouldRemove
    /\ decNew # NoDecision /\ decNew.status = "ok" /\ ~decNew.shouldRemove

\* =================================================== command pipelines
\* ---------------------------------------------------------------- bounds
\* Largest number of paths under the root when a command starts.
MaxFiles == 3

\* ------------------------------------------------------- the file tree
\* The entries a tree under the root of a remove run is made of, in the order
\* of files.sort(comparePathSmartBy('path')).
RemoveCatalog ==
    << \* a small image, "A .jpg"
       Entry(Name1, ".jpg", FALSE, BAD_SIZE + KILO, 1, 1, TRUE, "ok", "ok", FALSE, TRUE, TRUE),
       \* a large image with bad characters in its name
       Entry(Name2, ".jpg", FALSE, BAD_SIZE + KILO, MaxDim, MaxDim, TRUE, "ok", "ok", TRUE, TRUE, TRUE),
       \* a video the prober fails on
       Entry(Name1, ".mp4", FALSE, BAD_SIZE, 0, 0, FALSE, "throws", "ok", FALSE, TRUE, TRUE),
       \* a video too small to be sound
       Entry(Name2, ".mp4", FALSE, BAD_SIZE - 1, 0, 0, FALSE, "ok", "ok", FALSE, TRUE, TRUE),
       \* a directory
       Entry(Name2, "", TRUE, 0, 0, 0, FALSE, "ok", "ok", FALSE, TRUE, TRUE) >>

\* The paths of a catalog.
PathsOf(catalog) == { catalog[i].path : i \in 1..Len(catalog) }

\* The trees a run may start from.
Trees(catalog) == { t \in SUBSET PathsOf(catalog) : Cardinality(t) <= MaxFiles }

\* mf.walk(root, walkOpts), applyFileNameRules without include/exclude rules,
\* and the sort by path: the entries present on disk of the kinds asked for,
\* in path order.
Walk(catalog, present, withDirs, withFiles) ==
    LET Wanted(e) == /\ e.path \in present
                     /\ \/ e.isDir /\ withDirs
                        \/ e.isFile /\ withFiles
    IN  SelectSeq(catalog, Wanted)

\* files.map((f, i) => ({ ...f, index: i, ... }))
WithIndex(fs) == [i \in 1..Len(fs) |-> [fs[i] EXCEPT !.index = i - 1]]

\* ------------------------------------------------------ filesystem calls
\* One attempted mutation: the call, its path, whether it succeeded and how
\* many prompts the operator had confirmed when it was made.
Op(call, path, ok) ==
    [call |-> call, path |-> path, ok |-> ok,
     confirmed |-> Len(SelectSeq(answers, LAMBDA a : a))]

\* fs.rename(from, to), fs.move(from, to): an attempted mutation with its
\* destination.
MoveOp(call, path, dst, ok) == Op(call, path, ok) @@ [dst |-> dst]

\* --------------------------------------------------- remove: command line
\* argv.measure: two numbers around a separator; sep = "" is the empty string.
NoMeasure == [x |-> 0, sep |-> "", y |-> 0]

Measures ==
    { NoMeasure, [x |-> 1, sep |-> "x", y |-> 1], [x |-> 0, sep |-> "x", y |-> 1],
      [x |-> 1, sep |-> "-", y |-> 1] }

\* reMeasure = /^\d+[x*,\|]\d+$/
ReMeasureTest(m) == m.sep \in {"x", "*", ",", "|"}

\* argv.measure.split(/[x*,\|]/).map(Number): NaN and undefined, which fail
\* every "> 0" test, are written 0.
ParseMeasure(m) == IF ReMeasureTest(m) THEN <<m.x, m.y>> ELSE <<0, 0>>

\* argv.list: null, or a path that names nothing, a file of lines, a directory
\* of files, or something that cannot be read.
NoList == [kind |-> "null", lines |-> {}]

BlankLine == << <<" ">>, "" >>

Lists ==
    { NoList,
      [kind |-> "missing", lines |-> {}],
      [kind |-> "file", lines |-> {<<Name1, ".jpg">>, BlankLine}],
      [kind |-> "file", lines |-> {BlankLine}],
      [kind |-> "dir", lines |-> {<<Name1, ".jpg">>}],
      [kind |-> "unreadable", lines |-> {}] }

\* readNameList: path.parse(x).name.trim() of every line, empty names dropped.
readNameList(lines) ==
    [type |-> "Set", items |-> { Trim(l[1]) : l \in lines } \ {<<>>}]

\* The command lines that give exactly n of the first i options a value other
\* than the default.
RECURSIVE Supplied(_, _, _, _, _)
Supplied(defaults, values, options, i, n) ==
    IF i = 0
    THEN IF n = 0 THEN {defaults} ELSE {}
    ELSE Supplied(defaults, values, options, i - 1, n)
         \cup (IF n = 0 THEN {}
               ELSE { [a EXCEPT ![options[i]] = v] :
                        a \in Supplied(defaults, values, options, i - 1, n - 1),
                        v \in values[options[i]] \ {defaults[options[i]]} })

\* The command lines of a run: at most MaxOpts options supplied.
Argvs(defaults, values, options) ==
    UNION { Supplied(defaults, values, options, Len(options), n) : n \in 0..MaxOpts }

\* The command lines of remove: the defaults, values and names of its options.
RemoveArgvs ==
    Argvs([input |-> "exists", doit |-> FALSE, purge |-> FALSE, loose |-> FALSE,
          corrupted |-> FALSE, badchars |-> FALSE, notMatch |-> FALSE, reverse |->
          FALSE, width |-> 0, height |-> 0, measure |-> NoMeasure, size |-> 0, pattern
          |-> <<>>, list |-> NoList, type |-> "f"],
          [input |-> {"exists", "missing"}, doit |-> BOOLEAN, purge |-> BOOLEAN, loose
          |-> BOOLEAN, corrupted |-> BOOLEAN, badchars |-> BOOLEAN, notMatch |->
          BOOLEAN, reverse |-> BOOLEAN, width |-> 0..(MaxDim - 1), height |-> 0..(MaxDim
          - 1), measure |-> Measures, size |-> {0, 5}, pattern |-> {<<>>, <<"a">>}, list
          |-> Lists, type |-> {"f", "d", "a"}],
          << "input", "doit", "purge", "loose", "corrupted", "badchars", "notMatch",
          "reverse", "width", "height", "measure", "size", "pattern", "list", "type" >>)

\* Variant: the run is never in test mode.
TestModeNever(a) == FALSE

\* const testMode = !argv.doit
TestMode(a) == ~a.doit

\* The condition check of cmdRemove: true when no condition argument is
\* supplied and the command throws.
NoConditionArgs(a) ==
    /\ a.width = 0 /\ a.height = 0 /\ a.size = 0
    /\ ~(a.measure.sep # "" /\ ReMeasureTest(a.measure))
    /\ a.pattern = <<>>
    /\ a.list.kind = "null"
    /\ ~a.corrupted /\ ~a.badchars

\* let cWidth, cHeight of cmdRemove.
ThresholdsOf(a) ==
    IF a.width > 0 /\ a.height > 0
    THEN <<a.width, a.height>>
    ELSE IF a.measure.sep # ""
    THEN LET xy == ParseMeasure(a.measure)
         IN  IF xy[1] > 0 /\ xy[2] > 0 THEN xy ELSE <<0, 0>>
    ELSE <<0, 0>>

\* let cNames of cmdRemove, for a list path that can be read.
NamesOf(a) ==
    IF a.list.kind = "file" THEN readNameList(a.list.lines)
    ELSE IF a.list.kind = "dir"
    THEN [type |-> "Set", items |-> { Trim(l[1]) : l \in a.list.lines }]
    ELSE NoNames

\* The constants cmdRemove derives from argv.
RemoveLocals(a) ==
    [testMode |-> TestMode(a), type |-> a.type,
     cWidth |-> ThresholdsOf(a)[1], cHeight |-> ThresholdsOf(a)[2],
     purge |-> a.purge, cLoose |-> a.loose, cCorrupted |-> a.corrupted,
     cBadChars |-> a.badchars, cSize |-> a.size * KILO, cPattern |-> a.pattern,
     cNotMatch |-> a.notMatch, cReverse |-> a.reverse, cNames |-> NamesOf(a)]

\* const conditions = { total: files.length, ... } of cmdRemove.
ConditionSet(l, total) ==
    [total |-> total, loose |-> l.cLoose, corrupted |-> l.cCorrupted,
     badchars |-> l.cBadChars, width |-> l.cWidth, height |-> l.cHeight,
     size |-> l.cSize, pattern |-> l.cPattern, notMatch |-> l.cNotMatch,
     names |-> l.cNames, reverse |-> l.cReverse, purge |-> l.purge,
     testMode |-> l.testMode]

\* Array.from(cNames).slice(-5): an Array of the last five names (the lists of
\* the model hold fewer).
LastNames(names) == [type |-> "Array", items |-> names.items]

\* The handler ended.
End(how) == pc' = "end" /\ outcome' = how

\* -------------------------------------------------------- remove: handler
\* cmdRemove, from the input check to the name list.
RemoveStart ==
    /\ cmd = "remove" /\ pc = "start"
    /\ IF argv.input = "missing" \/ NoConditionArgs(argv)
       THEN End("rejected") /\ UNCHANGED locals
       ELSE IF argv.list.kind = "unreadable"
       THEN End("returned") /\ UNCHANGED locals
       ELSE pc' = "walk" /\ locals' = RemoveLocals(argv) /\ UNCHANGED outcome
    /\ UNCHANGED <<evalVars, presets, pools, conditions, cmd, argv, disk, disk0, trash, files,
                   pending, results, tasks, answers, ops, removedCount, cursor>>

\* cmdRemove, the walk, the ConditionSet and the indexed entries.
RemoveWalk ==
    /\ cmd = "remove" /\ pc = "walk"
    /\ LET found == Walk(RemoveCatalog, disk, locals.type = "d",
                         locals.type = "a" \/ locals.type = "f")
       IN  /\ conditions' = ConditionSet(locals, Len(found))
           /\ files' = WithIndex(found)
           /\ pending' = 1..Len(found)
           /\ results' = [i \in 1..Len(found) |-> NoDecision]
    /\ pc' = "evaluate"
    /\ UNCHANGED <<evalVars, presets, pools, cmd, argv, outcome, disk, disk0, trash, locals, tasks,
                   answers, ops, removedCount, cursor>>

\* pMap(files, preRemoveArgs): one mapper finishes; a throw rejects the map
\* and ends the handler.
RemoveEvaluate ==
    /\ cmd = "remove" /\ pc = "evaluate"
    /\ \E i \in pending :
         LET r == PreRemoveArgs(files[i], conditions)
         IN  IF r.status = "threw"
             THEN End("failed") /\ UNCHANGED <<results, pending>>
             ELSE /\ results' = [results EXCEPT ![i] = r]
                  /\ pending' = pending \ {i}
                  /\ UNCHANGED <<pc, outcome>>
    /\ UNCHANGED <<evalVars, presets, pools, conditions, cmd, argv, disk, disk0, trash, locals, files,
                   tasks, answers, ops, removedCount, cursor>>

\* tasks.filter((t) => t?.shouldRemove)
ShouldRemove(t) == t.status = "ok" /\ t.shouldRemove

\* cmdRemove, after the map: the names replaced by a sample, the filter, and
\* the return when nothing is left.
RemoveFilter ==
    /\ cmd = "remove" /\ pc = "evaluate" /\ pending = {}
    /\ conditions' = [conditions EXCEPT !.names = LastNames(locals.cNames)]
    /\ tasks' = SelectSeq(results, ShouldRemove)
    /\ IF tasks' = <<>> THEN End("nothing") ELSE pc' = "prompt" /\ UNCHANGED outcome
    /\ UNCHANGED <<evalVars, presets, pools, cmd, argv, disk, disk0, trash, locals, files, pending,
                   results, answers, ops, removedCount, cursor>>

\* The confirmation prompt of cmdRemove.
RemovePrompt ==
    /\ cmd = "remove" /\ pc = "prompt"
    /\ \E yes \in BOOLEAN :
         /\ answers' = Append(answers, yes)
         /\ IF yes THEN pc' = "execute" /\ UNCHANGED outcome ELSE End("aborted")
    /\ UNCHANGED <<evalVars, presets, pools, conditions, cmd, argv, disk, disk0, trash, locals, files,
                   pending, results, tasks, ops, removedCount, cursor>>

\* if (testMode): nothing is removed.
RemoveDryRun ==
    /\ cmd = "remove" /\ pc = "execute" /\ locals.testMode
    /\ pc' = "summary"
    /\ UNCHANGED <<evalVars, presets, pools, conditions, cmd, argv, outcome, disk, disk0, trash, locals,
                   files, pending, results, tasks, answers, ops, removedCount, cursor>>

\* One turn of "for (const task of tasks)": fs.remove or helper.safeRemove,
\* either of which may fail.
RemoveOne ==
    /\ cmd = "remove" /\ pc = "execute" /\ ~locals.testMode
    /\ cursor < Len(tasks)
    /\ \E ok \in BOOLEAN :
         LET task == tasks[cursor + 1]
         IN  /\ ops' = Append(ops, Op(IF locals.purge THEN "remove" ELSE "safeRemove",
                                      task.src, ok))
             /\ disk' = IF ok THEN disk \ {task.src} ELSE disk
             /\ trash' = IF ok /\ ~locals.purge THEN trash \cup {task.src} ELSE trash
             /\ removedCount' = IF ok THEN removedCount + 1 ELSE removedCount
    /\ cursor' = cursor + 1
    /\ UNCHANGED <<evalVars, presets, pools, conditions, cmd, argv, pc, outcome, disk0, locals, files,
                   pending, results, tasks, answers>>

\* The loop is over.
RemoveLoopEnd ==
    /\ cmd = "remove" /\ pc = "execute" /\ ~locals.testMode
    /\ cursor = Len(tasks)
    /\ pc' = "summary"
    /\ UNCHANGED <<evalVars, presets, pools, conditions, cmd, argv, outcome, disk, disk0, trash, locals,
                   files, pending, results, tasks, answers, ops, removedCount, cursor>>

\* "${removedCount} files removed": the handler returns.
RemoveSummary ==
    /\ cmd = "remove" /\ pc = "summary"
    /\ End("done")
    /\ UNCHANGED <<evalVars, presets, pools, conditions, cmd, argv, disk, disk0, trash, locals, files,
                   pending, results, tasks, answers, ops, removedCount, cursor>>

cmdRemove ==
    \/ RemoveStart \/ RemoveWalk \/ RemoveEvaluate \/ RemoveFilter \/ RemovePrompt
    \/ RemoveDryRun \/ RemoveOne \/ RemoveLoopEnd \/ RemoveSummary

\* ------------------------------------------------- compress: command line
\* const SIZE_DEFAULT = 2048 // in kbytes
SIZE_DEFAULT == 2048
\* preCompress: const maxWidth = options.maxWidth || 6000
PRE_MAX_WIDTH == 6000

\* `${base}_Z4K.jpg`: the compressed copy of a path.
CompressedPath(p) == << p[1] \o <<"_Z4K">>, ".jpg" >>

\* RE_THUMB = /Z4K|feature|web|thumb$/i, on the names of the model.
ReThumbTest(f) == \E i \in 1..Len(f.base) : f.base[i] = "_Z4K"

\* The entries a tree of a compress run is made of, in the order of mf.walk.
CompressCatalog ==
    << \* a large image
       Entry(Name1, ".jpg", FALSE, 3 * KILO * KILO, 1, MaxDim, TRUE, "ok", "ok", FALSE, TRUE, TRUE),
       \* a large image sharp cannot read
       Entry(Name1 \o Name2, ".jpg", FALSE, 3 * KILO * KILO, 0, 0, FALSE, "ok", "ok", FALSE, TRUE, TRUE),
       \* a large image
       Entry(Name2, ".jpg", FALSE, 3 * KILO * KILO, MaxDim, 1, TRUE, "ok", "ok", FALSE, TRUE, TRUE),
       \* the compressed copies of the two readable images
       Entry(Name2 \o <<"_Z4K">>, ".jpg", FALSE, 3 * KILO * KILO, 1, 1, TRUE, "ok", "ok", FALSE, TRUE, TRUE),
       Entry(Name1 \o <<"_Z4K">>, ".jpg", FALSE, 3 * KILO * KILO, 1, 1, TRUE, "ok", "ok", FALSE, TRUE, TRUE) >>

\* The command lines of compress: the defaults, values and names of its options.
CompressArgvs ==
    Argvs([input |-> "exists", doit |-> FALSE, purge |-> FALSE, override |-> FALSE, size
          |-> SIZE_DEFAULT],
          [input |-> {"exists", "missing"}, doit |-> BOOLEAN, purge |-> BOOLEAN,
          override |-> BOOLEAN, size |-> {SIZE_DEFAULT, 0, 4 * KILO}],
          << "input", "doit", "purge", "override", "size" >>)

\* The constants cmdCompress derives from argv.
CompressLocals(a) ==
    [testMode |-> TestMode(a), override |-> a.override,
     minFileSize |-> (IF a.size # 0 THEN a.size ELSE SIZE_DEFAULT) * KILO,
     deleteSrc |-> a.purge]

\* walkOpts.entryFilter of cmdCompress.
CompressWalk(catalog, present, minFileSize) ==
    LET Wanted(e) == /\ e.path \in present
                     /\ e.isFile
                     /\ ~ReThumbTest(e)
                     /\ e.size > minFileSize
                     /\ IsImageExt(e)
    IN  SelectSeq(catalog, Wanted)

\* Math.round(a / b) for positive operands.
Round(a, b) == (2 * a + b) \div (2 * b)

\* preCompress(f): the task of one entry, or undefined when sharp fails.  The
\* second argument pMap passes is the index, so maxWidth is always 6000.
preCompress(f, present) ==
    LET fileDst == CompressedPath(f.path)
        maxWidth == PRE_MAX_WIDTH
        nw == IF f.width > f.height THEN maxWidth ELSE Round(maxWidth * f.width, f.height)
        nh == Round(nw * f.height, f.width)
        dw == IF nw > f.width THEN f.width ELSE nw
        dh == IF nh > f.height THEN f.height ELSE nh
    IN  IF fileDst \in present
        THEN [status |-> "ok", index |-> f.index, width |-> 0, height |-> 0,
              src |-> f.path, dst |-> fileDst, dstExists |-> TRUE]
        ELSE IF ~f.dimOk
        THEN [status |-> "undefined"]
        ELSE [status |-> "ok", index |-> f.index, width |-> dw, height |-> dh,
              src |-> f.path, dst |-> fileDst, dstExists |-> FALSE]

\* tasks.filter((t) => t?.dst)
HasDst(t) == t.status = "ok"

\* tasks.forEach((t, i) => { t.index = i })
Reindexed(ts) == [i \in 1..Len(ts) |-> [ts[i] EXCEPT !.index = i - 1]]

\* results.filter(t => t?.src && t.dst && t.dstExists)
ToDelete(t) == t.status = "ok" /\ t.dstExists

\* ------------------------------------------------------ compress: handler
\* cmdCompress, from the input check to the walk.
CompressStart ==
    /\ cmd = "compress" /\ pc = "start"
    /\ IF argv.input = "missing"
       THEN End("rejected") /\ UNCHANGED <<locals, files>>
       ELSE /\ locals' = CompressLocals(argv)
            /\ files' = CompressWalk(CompressCatalog, disk, locals'.minFileSize)
            /\ IF files' = <<>> THEN End("nothing") ELSE pc' = "confirmFiles" /\ UNCHANGED outcome
    /\ UNCHANGED <<evalVars, presets, pools, conditions, cmd, argv, disk, disk0, trash, pending,
                   results, tasks, answers, ops, removedCount, cursor>>

\* "Press y to continue processing...", then the entries get their index.
CompressConfirmFiles ==
    /\ cmd = "compress" /\ pc = "confirmFiles"
    /\ \E yes \in BOOLEAN :
         /\ answers' = Append(answers, yes)
         /\ IF yes
            THEN /\ pc' = "prepare"
                 /\ files' = WithIndex(files)
                 /\ pending' = 1..Len(files)
                 /\ results' = [i \in 1..Len(files) |-> NoRecord]
                 /\ UNCHANGED outcome
            ELSE End("aborted") /\ UNCHANGED <<files, pending, results>>
    /\ UNCHANGED <<evalVars, presets, pools, conditions, cmd, argv, disk, disk0, trash, locals, tasks,
                   ops, removedCount, cursor>>

\* pMap(files, preCompress): one mapper finishes.
CompressPrepare ==
    /\ cmd = "compress" /\ pc = "prepare"
    /\ \E i \in pending :
         /\ results' = [results EXCEPT ![i] = preCompress(files[i], disk)]
         /\ pending' = pending \ {i}
    /\ UNCHANGED <<evalVars, presets, pools, conditions, cmd, argv, pc, outcome, disk, disk0, trash,
                   locals, files, tasks, answers, ops, removedCount, cursor>>

\* cmdCompress, after the map: the filter and the new indexes.
CompressFilter ==
    /\ cmd = "compress" /\ pc = "prepare" /\ pending = {}
    /\ tasks' = Reindexed(SelectSeq(results, HasDst))
    /\ IF tasks' = <<>> THEN End("nothing") ELSE pc' = "confirm" /\ UNCHANGED outcome
    /\ UNCHANGED <<evalVars, presets, pools, conditions, cmd, argv, disk, disk0, trash, locals, files,
                   pending, results, answers, ops, removedCount, cursor>>

\* "Are you sure to compress N files?"
CompressConfirm ==
    /\ cmd = "compress" /\ pc = "confirm"
    /\ \E yes \in BOOLEAN :
         /\ answers' = Append(answers, yes)
         /\ IF yes
            THEN /\ pc' = IF locals.testMode THEN "dryRun" ELSE "execute"
                 /\ pending' = 1..Len(tasks)
                 /\ results' = [i \in 1..Len(tasks) |-> NoRecord]
                 /\ UNCHANGED outcome
            ELSE End("aborted") /\ UNCHANGED <<pending, results>>
    /\ UNCHANGED <<evalVars, presets, pools, conditions, cmd, argv, disk, disk0, trash, locals, files,
                   tasks, ops, removedCount, cursor>>

\* "[DRY RUN], no thumbs generated."
CompressDryRun ==
    /\ cmd = "compress" /\ pc = "dryRun"
    /\ End("done")
    /\ UNCHANGED <<evalVars, presets, pools, conditions, cmd, argv, disk, disk0, trash, locals, files,
                   pending, results, tasks, answers, ops, removedCount, cursor>>

\* pMap(tasks, compressImage): one task is compressed.  A task whose
\* destination existed is returned as it is; otherwise the copy is written,
\* or the write fails and nothing is produced.
CompressImage ==
    /\ cmd = "compress" /\ pc = "execute"
    /\ \E i \in pending :
         /\ pending' = pending \ {i}
         /\ IF tasks[i].dstExists
            THEN /\ results' = [results EXCEPT ![i] = tasks[i]]
                 /\ UNCHANGED <<disk, ops>>
            ELSE \E ok \in BOOLEAN :
                   /\ ops' = Append(ops, Op("write", tasks[i].dst, ok))
                   /\ disk' = IF ok THEN disk \cup {tasks[i].dst} ELSE disk
                   /\ results' = [results EXCEPT ![i] = [tasks[i] EXCEPT !.dstExists = ok]]
    /\ UNCHANGED <<evalVars, presets, pools, conditions, cmd, argv, pc, outcome, disk0, trash, locals,
                   files, tasks, answers, removedCount, cursor>>

\* cmdCompress, after the second map.
CompressImagesDone ==
    /\ cmd = "compress" /\ pc = "execute" /\ pending = {}
    /\ IF locals.deleteSrc THEN pc' = "confirmDelete" /\ UNCHANGED outcome ELSE End("done")
    /\ UNCHANGED <<evalVars, presets, pools, conditions, cmd, argv, disk, disk0, trash, locals, files,
                   pending, results, tasks, answers, ops, removedCount, cursor>>

\* "Are you sure to delete N original files?"
CompressConfirmDelete ==
    /\ cmd = "compress" /\ pc = "confirmDelete"
    /\ \E yes \in BOOLEAN :
         /\ answers' = Append(answers, yes)
         /\ IF yes
            THEN /\ pc' = "delete"
                 /\ tasks' = SelectSeq(results, ToDelete)
                 /\ UNCHANGED outcome
            ELSE End("aborted") /\ UNCHANGED tasks
    /\ UNCHANGED <<evalVars, presets, pools, conditions, cmd, argv, disk, disk0, trash, locals, files,
                   pending, results, ops, removedCount, cursor>>

\* One turn of "for (const td of toDelete)": the source is moved away when
\* source and copy both exist; a failing safeRemove ends the handler.
CompressDeleteOne ==
    /\ cmd = "compress" /\ pc = "delete"
    /\ cursor < Len(tasks)
    /\ LET td == tasks[cursor + 1]
       IN  IF td.src \in disk /\ td.dst \in disk /\ td.dstExists
           THEN \E ok \in BOOLEAN :
                  /\ ops' = Append(ops, Op("safeRemove", td.src, ok))
                  /\ disk' = IF ok THEN disk \ {td.src} ELSE disk
                  /\ trash' = IF ok THEN trash \cup {td.src} ELSE trash
                  /\ IF ok THEN UNCHANGED <<pc, outcome>> ELSE End("failed")
           ELSE UNCHANGED <<ops, disk, trash, pc, outcome>>
    /\ cursor' = cursor + 1
    /\ UNCHANGED <<evalVars, presets, pools, conditions, cmd, argv, disk0, locals, files, pending,
                   results, tasks, answers, removedCount>>

\* The loop is over.
CompressDeleteEnd ==
    /\ cmd = "compress" /\ pc = "delete"
    /\ cursor = Len(tasks)
    /\ End("done")
    /\ UNCHANGED <<evalVars, presets, pools, conditions, cmd, argv, disk, disk0, trash, locals, files,
                   pending, results, tasks, answers, ops, removedCount, cursor>>

cmdCompress ==
    \/ CompressStart \/ CompressConfirmFiles \/ CompressPrepare \/ CompressFilter
    \/ CompressConfirm \/ CompressDryRun \/ CompressImage \/ CompressImagesDone
    \/ CompressConfirmDelete \/ CompressDeleteOne \/ CompressDeleteEnd

\* ------------------------------------------------ legacy compress (cs)
\* prepareCompressArgs: const maxWidth = options.maxWidth || 4000; cmdCompress
\* passes argv.width || 6000.
LEGACY_MAX_WIDTH == 6000

\* The options of the legacy compress command; force is read by the handler
\* though the builder does not declare it, doit is not read at all.
LegacyCompressArgvs ==
    Argvs([input |-> "exists", doit |-> FALSE, delete |-> FALSE, force |-> FALSE, size
          |-> SIZE_DEFAULT],
          [input |-> {"exists", "missing"}, doit |-> BOOLEAN, delete |-> BOOLEAN, force
          |-> BOOLEAN, size |-> {SIZE_DEFAULT, 0, 4 * KILO}],
          << "input", "doit", "delete", "force", "size" >>)

\* The constants the legacy cmdCompress derives from argv.
LegacyCompressLocals(a) ==
    [force |-> a.force,
     minFileSize |-> (IF a.size # 0 THEN a.size ELSE SIZE_DEFAULT) * KILO,
     deleteOriginal |-> a.delete]

\* The task prepareCompressArgs returns when the metadata can be read.
LegacyCompressTask(f) ==
    LET maxWidth == LEGACY_MAX_WIDTH
        nw == IF f.width > f.height THEN maxWidth ELSE Round(maxWidth * f.width, f.height)
        nh == Round(nw * f.height, f.width)
        dw == IF nw > f.width THEN f.width ELSE nw
        dh == IF nh > f.height THEN f.height ELSE nh
    IN  [status |-> "ok", index |-> f.index, width |-> dw, height |-> dh,
         src |-> f.path, dst |-> CompressedPath(f.path)]

\* The legacy cmdCompress, from the input check to the walk.
LegacyCompressStart ==
    /\ cmd = "legacyCompress" /\ pc = "start"
    /\ IF argv.input = "missing"
       THEN End("returned") /\ UNCHANGED <<locals, files>>
       ELSE /\ locals' = LegacyCompressLocals(argv)
            /\ files' = CompressWalk(CompressCatalog, disk, locals'.minFileSize)
            /\ pc' = "confirmFiles"
            /\ UNCHANGED outcome
    /\ UNCHANGED <<evalVars, presets, pools, conditions, cmd, argv, disk, disk0, trash, pending,
                   results, tasks, answers, ops, removedCount, cursor>>

\* "Press y to continue processing..."
LegacyCompressConfirmFiles ==
    /\ cmd = "legacyCompress" /\ pc = "confirmFiles"
    /\ \E yes \in BOOLEAN :
         /\ answers' = Append(answers, yes)
         /\ IF yes
            THEN /\ pc' = "prepare"
                 /\ pending' = 1..Len(files)
                 /\ results' = [i \in 1..Len(files) |-> NoRecord]
                 /\ UNCHANGED outcome
            ELSE End("aborted") /\ UNCHANGED <<pending, results>>
    /\ UNCHANGED <<evalVars, presets, pools, conditions, cmd, argv, disk, disk0, trash, locals, files,
                   tasks, ops, removedCount, cursor>>

\* prepareCompressArgs for one entry.  When the compressed copy exists and
\* deleteOriginal is set the source is moved away here; a failing safeRemove
\* rejects Promise.all and ends the handler.  With force the function goes on
\* to read the metadata of the source, which fails when it was just moved.
LegacyCompressPrepare ==
    /\ cmd = "legacyCompress" /\ pc = "prepare"
    /\ \E i \in pending :
         LET f == files[i]
             exists == CompressedPath(f.path) \in disk
             deletes == exists /\ locals.deleteOriginal
         IN  \E ok \in (IF deletes THEN BOOLEAN ELSE {TRUE}) :
               /\ ops' = IF deletes THEN Append(ops, Op("safeRemove", f.path, ok)) ELSE ops
               /\ disk' = IF deletes /\ ok THEN disk \ {f.path} ELSE disk
               /\ trash' = IF deletes /\ ok THEN trash \cup {f.path} ELSE trash
               /\ IF ~ok
                  THEN End("failed") /\ UNCHANGED <<results, pending>>
                  ELSE /\ results' =
                            [results EXCEPT ![i] =
                               IF exists /\ ~locals.force THEN [status |-> "undefined"]
                               ELSE IF f.path \notin disk' \/ ~f.dimOk
                               THEN [status |-> "undefined"]
                               ELSE LegacyCompressTask(f)]
                       /\ pending' = pending \ {i}
                       /\ UNCHANGED <<pc, outcome>>
    /\ UNCHANGED <<evalVars, presets, pools, conditions, cmd, argv, disk0, locals, files, tasks,
                   answers, removedCount, cursor>>

\* The legacy cmdCompress, after the preparation: tasks.filter((t) => t && t.dst).
LegacyCompressFilter ==
    /\ cmd = "legacyCompress" /\ pc = "prepare" /\ pending = {}
    /\ tasks' = SelectSeq(results, HasDst)
    /\ IF tasks' = <<>> THEN End("nothing") ELSE pc' = "confirm" /\ UNCHANGED outcome
    /\ UNCHANGED <<evalVars, presets, pools, conditions, cmd, argv, disk, disk0, trash, locals, files,
                   pending, results, answers, ops, removedCount, cursor>>

\* "Are you sure to compress N files?"
LegacyCompressConfirm ==
    /\ cmd = "legacyCompress" /\ pc = "confirm"
    /\ \E yes \in BOOLEAN :
         /\ answers' = Append(answers, yes)
         /\ IF yes
            THEN /\ pc' = "execute"
                 /\ pending' = 1..Len(tasks)
                 /\ UNCHANGED outcome
            ELSE End("aborted") /\ UNCHANGED pending
    /\ UNCHANGED <<evalVars, presets, pools, conditions, cmd, argv, disk, disk0, trash, locals, files,
                   results, tasks, ops, removedCount, cursor>>

\* makeThumbOne(t): sharp fails and the destination is removed; or the copy is
\* written and is under 200K, and is removed; or it is written and kept, and
\* the source is moved away when deleteOriginal is set (a failure is logged).
makeThumbOne ==
    /\ cmd = "legacyCompress" /\ pc = "execute"
    /\ \E i \in pending :
         LET t == tasks[i]
         IN  /\ pending' = pending \ {i}
             /\ \E how \in (IF t.src \in disk THEN {"fails", "small", "kept"} ELSE {"fails"}),
                   ok \in BOOLEAN :
                  CASE how = "fails" ->
                         /\ ok
                         /\ ops' = Append(ops, Op("remove", t.dst, TRUE))
                         /\ disk' = disk \ {t.dst}
                         /\ UNCHANGED trash
                    [] how = "small" ->
                         /\ ok
                         /\ ops' = ops \o <<Op("write", t.dst, TRUE), Op("remove", t.dst, TRUE)>>
                         /\ disk' = disk \ {t.dst}
                         /\ UNCHANGED trash
                    [] how = "kept" /\ ~locals.deleteOriginal ->
                         /\ ok
                         /\ ops' = Append(ops, Op("write", t.dst, TRUE))
                         /\ disk' = disk \cup {t.dst}
                         /\ UNCHANGED trash
                    [] how = "kept" /\ locals.deleteOriginal ->
                         /\ ops' = ops \o <<Op("write", t.dst, TRUE), Op("safeRemove", t.src, ok)>>
                         /\ disk' = IF ok THEN (disk \cup {t.dst}) \ {t.src} ELSE disk \cup {t.dst}
                         /\ trash' = IF ok THEN trash \cup {t.src} ELSE trash
    /\ UNCHANGED <<evalVars, presets, pools, conditions, cmd, argv, pc, outcome, disk0, locals, files,
                   results, tasks, answers, removedCount, cursor>>

\* pMap(tasks, makeThumbOne) is over.
LegacyCompressDone ==
    /\ cmd = "legacyCompress" /\ pc = "execute" /\ pending = {}
    /\ End("done")
    /\ UNCHANGED <<evalVars, presets, pools, conditions, cmd, argv, disk, disk0, trash, locals, files,
                   pending, results, tasks, answers, ops, removedCount, cursor>>

legacyCmdCompress ==
    \/ LegacyCompressStart \/ LegacyCompressConfirmFiles \/ LegacyCompressPrepare
    \/ LegacyCompressFilter \/ LegacyCompressConfirm \/ makeThumbOne
    \/ LegacyCompressDone

\* ---------------------------------------------------- legacy rename (rn)
\* The media files of a tree of a rename run with what exif.listMedia,
\* parseFiles, buildNames and checkFiles make of them: outName is the name built
\* from the date (empty when none was built), outPath the property of that name
\* the entry may carry, valid whether checkFiles keeps the entry.
Media(base, ext, outName, outPath, valid) ==
    [path |-> <<base, ext>>, base |-> base, ext |-> ext, isDir |-> FALSE, isFile |-> TRUE,
     outName |-> outName, outPath |-> outPath, valid |-> valid]

NoPath == << <<>>, "" >>

RenameCatalog ==
    << \* a photo to be renamed IMG_1.jpg
       Media(Name2, ".jpg", <<"IMG_1">>, NoPath, TRUE),
       \* a photo already carrying its name
       Media(<<"IMG_1">>, ".jpg", <<"IMG_1">>, << <<"IMG_1">>, ".jpg" >>, TRUE),
       \* a photo for which no name was built
       Media(Name1, ".jpg", <<>>, NoPath, TRUE),
       \* a photo checkFiles skips
       Media(Name1 \o Name2, ".jpg", <<"IMG_2">>, NoPath, FALSE) >>

\* The options of rename read by cmdRename; doit is not read.
RenameArgvs ==
    Argvs([input |-> "exists", doit |-> FALSE, fast |-> FALSE],
          [input |-> {"exists", "missing"}, doit |-> BOOLEAN, fast |-> BOOLEAN],
          << "input", "doit", "fast" >>)

\* exif.listMedia ... exif.checkFiles: the valid media files on disk.
ValidMedia(catalog, present) ==
    LET Wanted(e) == e.path \in present /\ e.valid
    IN  SelectSeq(catalog, Wanted)

\* cmdRename, from the input check to the list of files ready to rename.
RenameStart ==
    /\ cmd = "rename" /\ pc = "start"
    /\ IF argv.input = "missing"
       THEN End("returned") /\ UNCHANGED files
       ELSE /\ files' = ValidMedia(RenameCatalog, disk)
            /\ IF files' = <<>> THEN End("nothing") ELSE pc' = "prompt" /\ UNCHANGED outcome
    /\ UNCHANGED <<evalVars, presets, pools, conditions, cmd, argv, disk, disk0, trash, locals, pending,
                   results, tasks, answers, ops, removedCount, cursor>>

\* "Are you sure to rename N files?"
RenamePrompt ==
    /\ cmd \in {"rename", "prefix"} /\ pc = "prompt"
    /\ \E yes \in BOOLEAN :
         /\ answers' = Append(answers, yes)
         /\ IF yes
            THEN pc' = "rename" /\ pending' = 1..Len(files) /\ UNCHANGED outcome
            ELSE End("aborted") /\ UNCHANGED pending
    /\ UNCHANGED <<evalVars, presets, pools, conditions, cmd, argv, disk, disk0, trash, locals, files,
                   results, tasks, ops, removedCount, cursor>>

\* renameFiles, one file: ignored without outName or when path equals the
\* outPath property; otherwise fs.rename to the built name, which may fail.
renameFiles ==
    /\ cmd \in {"rename", "prefix"} /\ pc = "rename"
    /\ \E i \in pending :
         LET f == files[i]
             outPath == <<f.outName, f.ext>>
         IN  /\ pending' = pending \ {i}
             /\ IF f.outName = <<>> \/ f.path = f.outPath
                THEN UNCHANGED <<ops, disk>>
                ELSE \E ok \in BOOLEAN :
                       /\ ops' = Append(ops, MoveOp("rename", f.path, outPath, ok))
                       /\ disk' = IF ok THEN (disk \ {f.path}) \cup {outPath} ELSE disk
    /\ UNCHANGED <<evalVars, presets, pools, conditions, cmd, argv, pc, outcome, disk0, trash, locals,
                   files, results, tasks, answers, removedCount, cursor>>

\* "There N file were renamed."
RenameDone ==
    /\ cmd \in {"rename", "prefix"} /\ pc = "rename" /\ pending = {}
    /\ End("done")
    /\ UNCHANGED <<evalVars, presets, pools, conditions, cmd, argv, disk, disk0, trash, locals, files,
                   pending, results, tasks, answers, ops, removedCount, cursor>>

cmdRename == RenameStart \/ RenamePrompt \/ renameFiles \/ RenameDone

\* ------------------------------------------------------ legacy prefix (px)
\* The files of a tree of a prefix run, all in the folder "d-": names of digits,
\* a name of letters and a file of 1 KiB.
PrefixCatalog ==
    << Media(<<"1", "2">>, ".jpg", <<>>, NoPath, TRUE) @@ [size |-> 2 * KILO],
       Media(<<"7">>, ".jpg", <<>>, NoPath, TRUE) @@ [size |-> 2 * KILO],
       Media(<<"x">>, ".jpg", <<>>, NoPath, TRUE) @@ [size |-> 2 * KILO],
       Media(<<"3">>, ".jpg", <<>>, NoPath, TRUE) @@ [size |-> KILO] >>

\* The options of prefix read by cmdPrefix; doit is not read.
PrefixArgvs ==
    Argvs([input |-> "exists", doit |-> FALSE, all |-> FALSE, size |-> 0],
          [input |-> {"exists", "missing"}, doit |-> BOOLEAN, all |-> BOOLEAN,
           size |-> 0..2],
          << "input", "doit", "all", "size" >>)

\* fPrefix = (dirStr + "_" + oldBase).slice(nameSlice), with dirStr the folder
\* name and oldBase the base name, both without the special characters.
PrefixName(f, a) ==
    LET Char(c) == c # "-"
        dirStr == SelectSeq(<<"d", "-">>, Char)
        oldBase == SelectSeq(f.base, Char)
        whole == dirStr \o <<"_">> \o oldBase
        n == IF a.size = 0 THEN 24 ELSE a.size
    IN  IF Len(whole) <= n THEN whole ELSE SubSeq(whole, Len(whole) - n + 1, Len(whole))

\* cmdPrefix, from the input check to the tasks: the files over 1 KiB whose
\* base name is a number (all of them with --all) get outName.
PrefixStart ==
    /\ cmd = "prefix" /\ pc = "start"
    /\ IF argv.input = "missing"
       THEN End("returned") /\ UNCHANGED files
       ELSE LET Found(e) == e.path \in disk /\ e.size > KILO
                OnlyNum(e) == \A i \in 1..Len(e.base) : e.base[i] \in {"1", "2", "3", "7"}
                Wanted(e) == Found(e) /\ (OnlyNum(e) \/ argv.all)
                todo == SelectSeq(PrefixCatalog, Wanted)
            IN  /\ files' = [i \in 1..Len(todo) |->
                               [todo[i] EXCEPT !.outName = PrefixName(todo[i], argv)]]
                /\ IF todo = <<>> THEN End("nothing") ELSE pc' = "prompt" /\ UNCHANGED outcome
    /\ UNCHANGED <<evalVars, presets, pools, conditions, cmd, argv, disk, disk0, trash, locals, pending,
                   results, tasks, answers, ops, removedCount, cursor>>

cmdPrefix == PrefixStart

\* ----------------------------------------------------- legacy moveup (mu)
\* A file of a tree of a moveup run: its folder ("sub" the sub folder, "out"
\* and "vid" the output folders in it), its name and its size.
MoveFile(dir, base, ext, size) ==
    [path |-> <<dir, base, ext>>, dir |-> dir, base |-> base, ext |-> ext, size |-> size]

\* The files a tree of a moveup run is made of, in the order of listMedia.
MoveUpCatalog ==
    << MoveFile("sub", Name2, ".jpg", 1),
       MoveFile("sub", Name2 \o <<"_1">>, ".jpg", 2),
       MoveFile("sub", Name2, ".mp4", 1),
       MoveFile("out", Name2, ".jpg", 1),
       MoveFile("out", Name2, ".jpg", 2),
       MoveFile("out", Name2 \o <<"_1">>, ".jpg", 3) >>

\* The trees of a moveup run: files with their sizes, one per path.
MoveUpTrees ==
    { t \in SUBSET { MoveUpCatalog[i] : i \in 1..Len(MoveUpCatalog) } :
        /\ Cardinality(t) <= MaxFiles
        /\ \A f, g \in t : f.path = g.path => f = g }

\* fs.pathExists(p)
PathExists(p) == \E f \in disk : f.path = p

\* cmdMoveUp, the input check and the listing of the sub folders.
MoveUpStart ==
    /\ cmd = "moveup" /\ pc = "start"
    /\ IF argv.input = "missing"
       THEN End("returned")
       ELSE pc' = "prompt" /\ UNCHANGED outcome
    /\ UNCHANGED <<evalVars, presets, pools, conditions, cmd, argv, disk, disk0, trash, locals, files,
                   pending, results, tasks, answers, ops, removedCount, cursor>>

\* "Are you sure to move files in these folders to top sub folder?", then
\* exif.listMedia(curDir) of the sub folder.
MoveUpPrompt ==
    /\ cmd = "moveup" /\ pc = "prompt"
    /\ \E yes \in BOOLEAN :
         /\ answers' = Append(answers, yes)
         /\ IF yes
            THEN LET Present(e) == e \in disk
                 IN  /\ files' = SelectSeq(MoveUpCatalog, Present)
                     /\ pc' = "move" /\ UNCHANGED outcome
            ELSE End("aborted") /\ UNCHANGED files
    /\ UNCHANGED <<evalVars, presets, pools, conditions, cmd, argv, disk, disk0, trash, locals, pending,
                   results, tasks, ops, removedCount, cursor>>

\* The body of the loop over the files of the sub folder.
MoveUpOne ==
    /\ cmd = "moveup" /\ pc = "move" /\ cursor < Len(files)
    /\ cursor' = cursor + 1
    /\ LET f == files[cursor + 1]
           fileSrc == f.path
           output == IF IsVideoExt(f) THEN "vid" ELSE "out"
           first == <<output, f.base, f.ext>>
           Differs == \E d \in disk : d.path = first /\ d.size # f.size
           fileDst == IF PathExists(first) /\ Differs
                      THEN <<output, f.base \o <<"_1">>, f.ext>>
                      ELSE first
       IN  IF fileSrc = first \/ ~PathExists(fileSrc) \/ PathExists(fileDst)
           THEN UNCHANGED <<disk, ops, removedCount>>
           ELSE \E ok \in BOOLEAN :
                  /\ ops' = Append(ops, MoveOp("move", fileSrc, fileDst, ok))
                  /\ disk' = IF ok
                             THEN (disk \ {f}) \cup {MoveFile(output, fileDst[2], f.ext, f.size)}
                             ELSE disk
                  /\ removedCount' = IF ok THEN removedCount + 1 ELSE removedCount
    /\ UNCHANGED <<evalVars, presets, pools, conditions, cmd, argv, pc, outcome, disk0, trash, locals,
                   files, pending, results, tasks, answers>>

\* "All N files moved."
MoveUpDone ==
    /\ cmd = "moveup" /\ pc = "move" /\ cursor = Len(files)
    /\ End("done")
    /\ UNCHANGED <<evalVars, presets, pools, conditions, cmd, argv, disk, disk0, trash, locals, files,
                   pending, results, tasks, answers, ops, removedCount, cursor>>

cmdMoveUp == MoveUpStart \/ MoveUpPrompt \/ MoveUpOne \/ MoveUpDone

\* ---------------------------------------------------- transcode (ffmpeg)
\* The files a tree of a transcode run is made of: two videos, the output of
\* an earlier run for the first, an audio file and its output.
ConvertCatalog ==
    LET File(base, ext) == [path |-> <<base, ext>>, base |-> base, ext |-> ext]
    IN  << File(Name2, ".mp4"), File(Name1, ".mp4"), File(<<"[SHANA] ">> \o Name2, ".mp4"),
           File(Name2, ".mp3"), File(Name2, ".m4a") >>

\* The options of transcode read by cmdConvert.
ConvertArgvs ==
    Argvs([input |-> "exists", doit |-> FALSE, videoMode |-> FALSE, audioMode |-> FALSE],
          [input |-> {"exists", "missing"}, doit |-> BOOLEAN, videoMode |-> BOOLEAN,
           audioMode |-> BOOLEAN],
          << "input", "doit", "videoMode", "audioMode" >>)

\* preparePreset: aac_medium in audio mode, hevc_2k otherwise.
preparePreset(a) ==
    IF a.audioMode
    THEN [prefix |-> <<>>, format |-> ".m4a"]
    ELSE [prefix |-> <<"[SHANA] ">>, format |-> ".mp4"]

\* checkAndPrepare: nothing for an entry whose destination exists, otherwise
\* the entry with its destination and its temporary destination.
checkAndPrepare(f, preset, present) ==
    LET dstBase == preset.prefix \o f.base
        fileDst == <<dstBase, preset.format>>
        fileDstTemp == <<dstBase \o <<"_tmp@">>, preset.format>>
    IN  IF fileDst \in present
        THEN NoRecord
        ELSE [path |-> f.path, index |-> f.index, fileDst |-> fileDst,
              fileDstTemp |-> fileDstTemp]

\* createFFmpegArgs: the last argument, the file ffmpeg writes.
createFFmpegArgs(t) == t.fileDstTemp

\* Variant: any temporary file is taken.
TempUsableAnySize(exists, dstSize) == exists

\* fs.pathExists(entry.fileDstTemp) and dstSize > mf.FILE_SIZE_1K
TempUsable(exists, dstSize) == exists /\ dstSize > KILO

\* cmdConvert, from the input check to the indexed entries.
ConvertStart ==
    /\ cmd = "transcode" /\ pc = "start"
    /\ IF argv.input = "missing" \/ (~argv.videoMode /\ ~argv.audioMode)
       THEN End("failed") /\ UNCHANGED <<locals, files>>
       ELSE LET Wanted(e) ==
                    /\ e.path \in disk
                    /\ IF argv.audioMode THEN IsAudioExt(e) ELSE IsVideoExt(e)
                    /\ \A i \in 1..Len(e.base) : e.base[i] \notin {"[SHANA] ", "_tmp@"}
                found == SelectSeq(ConvertCatalog, Wanted)
            IN  /\ files' = [i \in 1..Len(found) |-> found[i] @@ [index |-> i - 1]]
                /\ locals' = [testMode |-> TestMode(argv), preset |-> preparePreset(argv),
                              shown |-> Len(found)]
                /\ IF found = <<>> THEN End("nothing") ELSE pc' = "prepare" /\ UNCHANGED outcome
    /\ UNCHANGED <<evalVars, presets, pools, conditions, cmd, argv, disk, disk0, trash, pending,
                   results, tasks, answers, ops, removedCount, cursor>>

\* cmdConvert: the tasks, and the command line of the first task, which
\* fails when there is none.
ConvertPrepare ==
    /\ cmd = "transcode" /\ pc = "prepare"
    /\ LET Prepared(i) == checkAndPrepare(files[i], locals.preset, disk)
           IsTask(t) == t # NoRecord
       IN  tasks' = SelectSeq([i \in 1..Len(files) |-> Prepared(i)], IsTask)
    /\ IF tasks' = <<>> THEN End("failed") ELSE pc' = "prompt" /\ UNCHANGED outcome
    /\ UNCHANGED <<evalVars, presets, pools, conditions, cmd, argv, disk, disk0, trash, locals, files,
                   pending, results, answers, ops, removedCount, cursor>>

\* "Are you sure to process these N files?", N the number of entries, then
\* the search for the ffmpeg executable.
ConvertPrompt ==
    /\ cmd = "transcode" /\ pc = "prompt"
    /\ \E yes \in BOOLEAN, ffmpegPath \in BOOLEAN :
         /\ answers' = Append(answers, yes)
         /\ IF ~ffmpegPath THEN End("failed")
            ELSE IF yes THEN pc' = "run" /\ UNCHANGED outcome
            ELSE End("aborted")
    /\ UNCHANGED <<evalVars, presets, pools, conditions, cmd, argv, disk, disk0, trash, locals, files,
                   pending, results, tasks, ops, removedCount, cursor>>

\* runFFmpegCmd for the next task.  The subprocess finishes or fails, leaves
\* a temporary file of some size or none; a usable file is moved to the
\* destination, and the move may fail.
runFFmpegCmd ==
    /\ cmd = "transcode" /\ pc = "run" /\ cursor < Len(tasks)
    /\ cursor' = cursor + 1
    /\ LET t == tasks[cursor + 1]
           out == createFFmpegArgs(t)
       IN  IF locals.testMode
           THEN /\ results' = Append(results, [finished |-> FALSE, exists |-> FALSE,
                                               dstSize |-> 0, moved |-> FALSE, done |-> FALSE])
                /\ UNCHANGED <<disk, ops>>
           ELSE \E finished \in BOOLEAN, exists \in BOOLEAN, dstSize \in {0, KILO, KILO + 1},
                   moved \in BOOLEAN :
                  LET usable == finished /\ TempUsable(exists, dstSize)
                  IN  /\ ~exists => dstSize = 0
                      /\ ~usable => ~moved
                      /\ results' = Append(results, [finished |-> finished, exists |-> exists,
                                                     dstSize |-> dstSize, moved |-> moved,
                                                     done |-> moved])
                      /\ ops' = ops \o << MoveOp("ffmpeg", t.path, out, finished) >>
                                    \o (IF usable
                                        THEN << MoveOp("move", out, t.fileDst, moved) >>
                                        ELSE << >>)
                      /\ disk' = IF moved THEN disk \cup {t.fileDst}
                                 ELSE IF exists THEN disk \cup {out}
                                 ELSE disk
    /\ UNCHANGED <<evalVars, presets, pools, conditions, cmd, argv, pc, outcome, disk0, trash, locals,
                   files, pending, tasks, answers, removedCount>>

\* "Total N files processed"
ConvertDone ==
    /\ cmd = "transcode" /\ pc = "run" /\ cursor = Len(tasks)
    /\ End("done")
    /\ UNCHANGED <<evalVars, presets, pools, conditions, cmd, argv, disk, disk0, trash, locals, files,
                   pending, results, tasks, answers, ops, removedCount, cursor>>

cmdConvert ==
    ConvertStart \/ ConvertPrepare \/ ConvertPrompt \/ runFFmpegCmd \/ ConvertDone

\* ------------------------------------------------------ legacy remove (rm)
\* The options of the legacy remove command read by its handler.
LegacyRemoveArgvs ==
    Argvs([input |-> "exists", doit |-> FALSE, safe |-> TRUE, loose |-> FALSE, width |->
          0, height |-> 0, size |-> 0, pattern |-> <<>>, list |-> NoList, reverse |->
          FALSE],
          [input |-> {"exists", "missing"}, doit |-> BOOLEAN, safe |-> BOOLEAN, loose
          |-> BOOLEAN, width |-> 0..(MaxDim - 1), height |-> 0..(MaxDim - 1), size |->
          {0, 5}, pattern |-> {<<>>, <<"a">>}, list |-> Lists, reverse |-> BOOLEAN],
          << "input", "doit", "safe", "loose", "width", "height", "size", "pattern",
          "list", "reverse" >>)

\* Variant: the flag as given on the command line.
UseSafeRemoveAsGiven(a) == a.safe

\* const useSafeRemove = argv.safe || true
UseSafeRemove(a) == a.safe \/ TRUE

\* The argument check of the legacy cmdRemove.
LegacyNoConditionArgs(a) ==
    /\ a.width = 0 /\ a.height = 0 /\ a.size = 0
    /\ a.pattern = <<>>
    /\ a.list.kind = "null"

\* The constants the legacy cmdRemove derives from argv.
LegacyRemoveLocals(a) ==
    [useSafeRemove |-> UseSafeRemove(a), cLoose |-> a.loose, cWidth |-> a.width,
     cHeight |-> a.height, cSize |-> a.size * KILO, cPattern |-> a.pattern,
     cReverse |-> a.reverse, cNames |-> NamesOf(a)]

\* const conditions = { loose: cLoose, ... } of the legacy cmdRemove.
LegacyConditionSet(l) ==
    [loose |-> l.cLoose, width |-> l.cWidth, height |-> l.cHeight, size |-> l.cSize,
     pattern |-> l.cPattern, names |-> l.cNames, reverse |-> l.cReverse,
     safe |-> l.useSafeRemove]

\* The legacy cmdRemove, from the input check to the name list.
LegacyRemoveStart ==
    /\ cmd = "legacyRemove" /\ pc = "start"
    /\ IF \/ argv.input = "missing"
          \/ LegacyNoConditionArgs(argv)
          \/ argv.list.kind = "unreadable"
       THEN End("returned") /\ UNCHANGED locals
       ELSE pc' = "walk" /\ locals' = LegacyRemoveLocals(argv) /\ UNCHANGED outcome
    /\ UNCHANGED <<evalVars, presets, pools, conditions, cmd, argv, disk, disk0, trash, files,
                   pending, results, tasks, answers, ops, removedCount, cursor>>

\* The legacy cmdRemove: the ConditionSet and the walk over files, which
\* numbers the entries (withIndex).
LegacyRemoveWalk ==
    /\ cmd = "legacyRemove" /\ pc = "walk"
    /\ LET found == Walk(RemoveCatalog, disk, FALSE, TRUE)
       IN  /\ conditions' = LegacyConditionSet(locals)
           /\ files' = WithIndex(found)
           /\ pending' = 1..Len(found)
           /\ results' = [i \in 1..Len(found) |-> NoDecision]
    /\ pc' = "evaluate"
    /\ UNCHANGED <<evalVars, presets, pools, cmd, argv, outcome, disk, disk0, trash, locals, tasks,
                   answers, ops, removedCount, cursor>>

\* Promise.all(files.map(throat(..., prepareRemoveArgs))): one call returns.
LegacyRemoveEvaluate ==
    /\ cmd = "legacyRemove" /\ pc = "evaluate"
    /\ \E i \in pending :
         /\ results' = [results EXCEPT ![i] = PrepareRemoveArgs(files[i], conditions)]
         /\ pending' = pending \ {i}
    /\ UNCHANGED <<evalVars, presets, pools, conditions, cmd, argv, pc, outcome, disk, disk0, trash,
                   locals, files, tasks, answers, ops, removedCount, cursor>>

\* The legacy cmdRemove, after the evaluations: tasks.filter((t) => t && t.shouldRemove).
LegacyRemoveFilter ==
    /\ cmd = "legacyRemove" /\ pc = "evaluate" /\ pending = {}
    /\ conditions' = [conditions EXCEPT !.names = LastNames(locals.cNames)]
    /\ tasks' = SelectSeq(results, ShouldRemove)
    /\ IF tasks' = <<>> THEN End("nothing") ELSE pc' = "prompt" /\ UNCHANGED outcome
    /\ UNCHANGED <<evalVars, presets, pools, cmd, argv, disk, disk0, trash, locals, files, pending,
                   results, answers, ops, removedCount, cursor>>

\* "Are you sure to remove N files (total M) using above conditions?"
LegacyRemovePrompt ==
    /\ cmd = "legacyRemove" /\ pc = "prompt"
    /\ \E yes \in BOOLEAN :
         /\ answers' = Append(answers, yes)
         /\ IF yes THEN pc' = "execute" /\ UNCHANGED outcome ELSE End("aborted")
    /\ UNCHANGED <<evalVars, presets, pools, conditions, cmd, argv, disk, disk0, trash, locals, files,
                   pending, results, tasks, ops, removedCount, cursor>>

\* One turn of the legacy loop: "await useSafeRemove ? helper.safeRemove(src) :
\* fs.remove(src)" awaits the flag, not the call, so the removal is started
\* and left in flight, and the turn counts the task as removed.
LegacyRemoveCall ==
    /\ cmd = "legacyRemove" /\ pc = "execute"
    /\ cursor < Len(tasks)
    /\ pending' = pending \cup {cursor + 1}
    /\ removedCount' = removedCount + 1
    /\ cursor' = cursor + 1
    /\ UNCHANGED <<evalVars, presets, pools, conditions, cmd, argv, pc, outcome, disk, disk0, trash,
                   locals, files, results, tasks, answers, ops>>

\* The loop is over: "N files removed" is logged while the removals run.
LegacyRemoveSummary ==
    /\ cmd = "legacyRemove" /\ pc = "execute"
    /\ cursor = Len(tasks)
    /\ pc' = "settle"
    /\ UNCHANGED <<evalVars, presets, pools, conditions, cmd, argv, outcome, disk, disk0, trash, locals,
                   files, pending, results, tasks, answers, ops, removedCount, cursor>>

\* One removal in flight settles.  A rejection has no handler: the runtime
\* either ends the process on it (the removals still in flight are lost) or
\* only warns.
LegacyRemoveSettle ==
    /\ cmd = "legacyRemove" /\ pc = "settle"
    /\ \E i \in pending, ok \in BOOLEAN, exits \in BOOLEAN :
         LET src == tasks[i].src
             safe == locals.useSafeRemove
         IN  /\ ok => ~exits
             /\ ops' = Append(ops, Op(IF safe THEN "safeRemove" ELSE "remove", src, ok))
             /\ disk' = IF ok THEN disk \ {src} ELSE disk
             /\ trash' = IF ok /\ safe THEN trash \cup {src} ELSE trash
             /\ pending' = pending \ {i}
             /\ IF exits THEN End("crashed") ELSE UNCHANGED <<pc, outcome>>
    /\ UNCHANGED <<evalVars, presets, pools, conditions, cmd, argv, disk0, locals, files, results,
                   tasks, answers, removedCount, cursor>>

\* Every removal has settled.
LegacyRemoveEnd ==
    /\ cmd = "legacyRemove" /\ pc = "settle" /\ pending = {}
    /\ End("done")
    /\ UNCHANGED <<evalVars, presets, pools, conditions, cmd, argv, disk, disk0, trash, locals, files,
                   pending, results, tasks, answers, ops, removedCount, cursor>>

legacyCmdRemove ==
    \/ LegacyRemoveStart \/ LegacyRemoveWalk \/ LegacyRemoveEvaluate
    \/ LegacyRemoveFilter \/ LegacyRemovePrompt \/ LegacyRemoveCall
    \/ LegacyRemoveSummary \/ LegacyRemoveSettle \/ LegacyRemoveEnd

\* ------------------------------------------------------------ the runs
\* A command starts on a tree, with a command line.
Started(c, a, tree) ==
    /\ cmd = c
    /\ argv = a
    /\ pc = "start"
    /\ outcome = "running"
    /\ disk = tree
    /\ disk0 = tree
    /\ trash = {}
    /\ locals = NoRecord
    /\ files = <<>>
    /\ pending = {}
    /\ results = <<>>
    /\ tasks = <<>>
    /\ answers = <<>>
    /\ ops = <<>>
    /\ removedCount = 0
    /\ cursor = 0
    /\ entry = NoRecord
    /\ conditions = NoRecord
    /\ decNew = NoDecision
    /\ decLegacy = NoDecision
    /\ presets = InitializedPresets(ModuleLoaded)
    /\ pools = NoPools

Init ==
    \/ \E a \in RemoveArgvs, t \in Trees(RemoveCatalog) : Started("remove", a, t)
    \/ \E a \in CompressArgvs, t \in Trees(CompressCatalog) : Started("compress", a, t)
    \/ \E a \in LegacyCompressArgvs, t \in Trees(CompressCatalog) :
          Started("legacyCompress", a, t)
    \/ \E a \in RenameArgvs, t \in Trees(RenameCatalog) : Started("rename", a, t)
    \/ \E a \in LegacyRemoveArgvs, t \in Trees(RemoveCatalog) :
          Started("legacyRemove", a, t)
    \/ \E a \in PrefixArgvs, t \in Trees(PrefixCatalog) : Started("prefix", a, t)
    \/ \E a \in RenameArgvs, t \in MoveUpTrees : Started("moveup", a, t)
    \/ \E a \in ConvertArgvs, t \in Trees(ConvertCatalog) : Started("transcode", a, t)

Next ==
    \/ cmdRemove \/ cmdCompress \/ legacyCmdCompress \/ cmdRename
    \/ legacyCmdRemove \/ cmdPrefix \/ cmdMoveUp \/ cmdConvert

Spec == Init /\ [][Next]_vars

\* --------------------------------------------------- command properties
\* width is the only condition supplied to a strict remove run.
WidthOnly ==
    /\ cmd = "remove"
    /\ argv.width > 0 /\ argv.height = 0 /\ argv.measure = NoMeasure
    /\ argv.size = 0 /\ argv.pattern = <<>> /\ argv.list = NoList
    /\ ~argv.corrupted /\ ~argv.badchars /\ ~argv.loose

\* An image whose header can be read and whose width is within argv.width.
NarrowImage(f) ==
    IsImageExt(f) /\ f.isFile /\ f.dimOk /\ f.width <= argv.width

\* C4: in a strict remove run whose only supplied condition is a width
\* threshold, every evaluated image whose width is at most the threshold is
\* selected for removal.
C4_WidthOnly ==
    WidthOnly =>
        \A i \in 1..Len(results) :
            (results[i] # NoDecision /\ NarrowImage(files[i]))
                => (results[i].status = "ok" /\ results[i].shouldRemove)

\* A condition of the ConditionSet is active.
ActiveCondition(c) ==
    \/ HasList(c)
    \/ c.pattern # <<>>
    \/ c.size > 0
    \/ c.width > 0
    \/ c.height > 0
    \/ c.corrupted
    \/ c.badchars

\* C7: once a remove run has walked the tree, at least one condition of the
\* ConditionSet it built is active (a run without an active condition was
\* rejected before the walk).
C7_ActiveCondition ==
    (cmd = "remove" /\ pc = "evaluate") => ActiveCondition(conditions)

\* C8: without --doit, remove and compress attempt no filesystem mutation,
\* whatever the tasks and the answers, and remove ends with removedCount = 0.
C8_TestMode ==
    (cmd \in {"remove", "compress"} /\ ~argv.doit) =>
        /\ ops = <<>>
        /\ disk = disk0
        /\ trash = {}
        /\ removedCount = 0

\* A remove run in test mode that selected files, was confirmed by the
\* operator and ended: nothing was removed.
C8_Witness ==
    /\ cmd = "remove" /\ ~argv.doit
    /\ outcome = "done"
    /\ Len(tasks) > 0
    /\ answers = <<TRUE>>
    /\ ops = <<>> /\ disk = disk0 /\ removedCount = 0

\* C9: a command run without --doit performs no rename, move, delete or write
\* at any stage and leaves the tree as it found it.
C9_DoitGate ==
    ~argv.doit =>
        /\ \A i \in 1..Len(ops) : ~ops[i].ok
        /\ disk = disk0
        /\ trash = {}

\* C10: every filesystem mutation of a run follows a yes of the operator, and
\* a run the operator declined ends with the tree as it was at the start.
C10_ConfirmFirst ==
    /\ \A i \in 1..Len(ops) : ops[i].ok => ops[i].confirmed >= 1
    /\ outcome = "aborted" => (disk = disk0 /\ trash = {})

\* A remove run whose task list the operator confirmed and that executes it.
ExecutedRemove ==
    /\ cmd \in {"remove", "legacyRemove"}
    /\ answers = <<TRUE>>
    /\ cmd = "remove" => ~locals.testMode

\* C11: a confirmed remove run that executes its task list ends with its
\* summary and with every task of the list attempted, whatever removals fail.
C11_FailureIsolated ==
    (ExecutedRemove /\ pc = "end") => (outcome = "done" /\ Len(ops) = Len(tasks))

\* C12: no failure of an extractor during rule evaluation ends the remove
\* command: a run that passed its input validation never ends on an error.
C12_ExtractionIsolated ==
    cmd = "remove" => outcome # "failed"

C14_ExistingSkipped ==
    (/\ cmd \in {"compress", "legacyCompress"}
     /\ argv.doit
     /\ cmd = "legacyCompress" => ~argv.force
     /\ pc = "confirm")
        => \A i \in 1..Len(tasks) : tasks[i].dst \notin disk

\* A move of the moveup run into the output folders.
MovedTo(f, dst) ==
    /\ f \notin disk
    /\ \E g \in disk : g.path = dst /\ g.size = f.size

\* C15: when a moveup run in which no move failed has ended, every file of
\* the sub folder whose destination X was taken by a file of another size
\* is at X_1, and X is as it was.
C15_Disambiguated ==
    (cmd = "moveup" /\ outcome = "done" /\ \A i \in 1..Len(ops) : ops[i].ok) =>
        \A f, x \in disk0 :
            (f.dir = "sub" /\ x.path = <<"out", f.base, f.ext>> /\ x.size # f.size) =>
                /\ MovedTo(f, <<"out", f.base \o <<"_1">>, f.ext>>)
                /\ x \in disk

\* C16: no rename or move is issued from a path to itself.
C16_SameSkipped ==
    cmd \in {"rename", "prefix", "moveup"} =>
        \A i \in 1..Len(ops) : ops[i].dst # ops[i].path

\* C17: after a transcode task whose output was at most 1 KiB, neither the
\* temporary file nor the destination of the task is on disk.
C17_UndersizedDeleted ==
    cmd = "transcode" =>
        \A i \in 1..Len(results) :
            (results[i].exists /\ results[i].dstSize <= KILO) =>
                /\ tasks[i].fileDstTemp \notin disk
                /\ tasks[i].fileDst \notin disk

\* C18: in a transcode run a destination is on disk, or a task marked done,
\* only if the run is not a test, the subprocess of the task finished, its
\* temporary file was there with more than 1 KiB and was moved to the
\* destination.
C18_TempThenMove ==
    cmd = "transcode" =>
        \A i \in 1..Len(tasks) :
            (tasks[i].fileDst \in disk \/ (i <= Len(results) /\ results[i].done)) =>
                /\ ~locals.testMode
                /\ i <= Len(results)
                /\ results[i].finished /\ results[i].exists /\ results[i].dstSize > KILO
                /\ results[i].moved
                /\ tasks[i].fileDstTemp \notin disk
                /\ \E j \in 2..Len(ops) :
                      /\ ops[j] = [ops[j] EXCEPT !.call = "move", !.ok = TRUE,
                                                 !.path = tasks[i].fileDstTemp,
                                                 !.dst = tasks[i].fileDst]
                      /\ ops[j - 1].call = "ffmpeg" /\ ops[j - 1].ok
                      /\ ops[j - 1].dst = tasks[i].fileDstTemp

\* A transcode run with a task done and a task whose output was too small.
C18_Witness ==
    /\ cmd = "transcode" /\ outcome = "done"
    /\ \E i, j \in 1..Len(results) :
          /\ results[i].done /\ tasks[i].fileDst \in disk
          /\ results[j].finished /\ results[j].exists /\ results[j].dstSize = KILO
          /\ tasks[j].fileDst \notin disk

\* C19: the number of files the confirmation of a transcode run shows is the
\* number of tasks the run executes after a yes.
C19_PromptMatchesTasks ==
    (cmd = "transcode" /\ pc \in {"prompt", "run"}) => locals.shown = Len(tasks)

\* C20: a task of a remove or compress run carries the index its entry was
\* given before the evaluation.
C20_StableIndex ==
    cmd \in {"remove", "compress"} =>
        \A i \in 1..Len(tasks) :
            \E j \in 1..Len(files) :
                files[j].path = tasks[i].src /\ files[j].index = tasks[i].index

\* C24: every entry of PRESET_MAP has the value it had when initializePresets
\* returned, and the base presets have the values they were defined with.
C24_TableUnchanged ==
    /\ presets.heap[1] = HEVC_BASE
    /\ presets.heap[2] = AAC_BASE
    /\ \A n \in DOMAIN presets.map : presets.heap[presets.map[n]] = presets.initial[n]

\* Two presets were handed out, the first specialised away from its entry of
\* PRESET_MAP.
C24_Witness ==
    /\ Len(presets.made) = MaxCalls
    /\ LET preset == presets.heap[presets.made[1]]
       IN  /\ preset.name = "hevc_2k"
           /\ preset.prefix = "X" /\ preset.dimension = "1280"
           /\ preset # presets.initial["hevc_2k"]

\* C25: once the ConditionSet of a remove run is built, no step of the run
\* changes it.
C25_ConditionsFrozen ==
    [][(cmd \in {"remove", "legacyRemove"} /\ conditions # NoRecord)
          => conditions' = conditions]_vars

\* C28: in remove, compress and transcode, the step that filters the built
\* records (every entry prepared, none pending) and leaves an empty task list
\* ends the command with the nothing-to-do outcome, before any prompt and
\* without any operation.
C28_EmptyEndsCleanly ==
    [][(/\ cmd \in {"remove", "compress", "transcode"}
        /\ pc \in {"evaluate", "prepare"} /\ pending = {} /\ pc' # pc
        /\ tasks' = <<>>)
          => (/\ pc' = "end" /\ outcome' = "nothing"
              /\ answers' = answers /\ ops' = ops /\ disk' = disk)]_vars

\* C29: at the end of a confirmed real remove run, in either implementation,
\* every task has been attempted exactly once, in the order of the list, and
\* removedCount is the number of tasks whose removal completed without error.
C29_CountsCompleted ==
    (ExecutedRemove /\ pc = "end") =>
        /\ Len(ops) = Len(tasks)
        /\ \A i \in 1..Len(ops) : i <= Len(tasks) => ops[i].path = tasks[i].src
        /\ removedCount = Cardinality({i \in 1..Len(ops) : ops[i].ok})

\* C30: whatever the CPU count, the concurrency of every pool a command
\* creates is a whole number of at least 1, and the pool of the execution
\* stage has a lower concurrency than the pool of the preparation stage.
C30_WholeLimits ==
    /\ \A i \in 1..Len(pools.created) :
          /\ IsWhole(pools.created[i].concurrency)
          /\ AtLeastOne(pools.created[i].concurrency)
    /\ Len(pools.created) = 2 =>
          Below(pools.created[2].concurrency, pools.created[1].concurrency)

====
